---- MODULE Spec2Model ----
(***************************************************************************)
(* dadi/Numerics.py: the nonuniform grid, the closed-form extrapolators,   *)
(* the extrapolation wrapper built by make_extrap_func, and the memoized   *)
(* projection coefficients of _cached_projection.                          *)
(***************************************************************************)
EXTENDS Integers, Sequences, FiniteSets

(***************************************************************************)
(* Exact arithmetic.  The program computes in floating point; the model    *)
(* evaluates the same expressions exactly.  A small value (a grid point, a *)
(* result of the wrapped function, a projection coefficient) is a reduced  *)
(* fraction <<p, q>> of machine integers with q > 0.                       *)
(***************************************************************************)
Max(a, b) == IF a >= b THEN a ELSE b

Min(a, b) == IF a <= b THEN a ELSE b

Abs(a) == IF a < 0 THEN 0 - a ELSE a

RECURSIVE GCD(_, _)
GCD(a, b) == IF b = 0 THEN a ELSE GCD(b, a % b)

LCM(a, b) == (a \div GCD(a, b)) * b

Rat(p, q) ==
    LET g == GCD(Abs(p), Abs(q))
        s == IF q < 0 THEN 0 - 1 ELSE 1
    IN  <<s * (p \div g), s * (q \div g)>>

RatInt(i) == <<i, 1>>

RatAdd(a, b) ==
    LET l == LCM(a[2], b[2])
    IN  Rat(a[1] * (l \div a[2]) + b[1] * (l \div b[2]), l)

RatNeg(a) == <<0 - a[1], a[2]>>

RatSub(a, b) == RatAdd(a, RatNeg(b))

RatMul(a, b) ==
    LET g1 == GCD(Abs(a[1]), b[2])
        g2 == GCD(Abs(b[1]), a[2])
    IN  Rat((a[1] \div g1) * (b[1] \div g2), (a[2] \div g2) * (b[2] \div g1))

RatDiv(a, b) == RatMul(a, Rat(b[2], b[1]))

RatLess(a, b) == a[1] * b[2] < b[1] * a[2]

RECURSIVE RatPow(_, _)
RatPow(a, k) == IF k = 0 THEN RatInt(1) ELSE RatMul(a, RatPow(a, k - 1))

(***************************************************************************)
(* default_grid.  Python indexes from 0 and the model from 1, so the       *)
(* program's grid[i] is the model's grid[i + 1]; grid[-1] and grid[-2] are *)
(* the last two entries and raise IndexError when they do not exist.       *)
(***************************************************************************)
linspace(start, stop, num) ==
    [i \in 1..num |->
        IF num = 1 THEN start
        ELSE RatAdd(start, RatMul(RatInt(i - 1), RatDiv(RatSub(stop, start), RatInt(num - 1))))]

\* A faulty variant of small_pts: a tenth rounded to the nearest integer.
small_pts_nearest(num_pts) == (num_pts + 5) \div 10

\* small_pts = int(0.1*num_pts)
small_pts(num_pts) == num_pts \div 10

large_pts(num_pts) == num_pts - small_pts(num_pts) + 1

\* q[1] needs two interior points, grid[-1] one boundary point and grid[-2] two.
default_grid_IndexError(num_pts) ==
    \/ large_pts(num_pts) < 2
    \/ small_pts(num_pts) < 1
    \/ small_pts(num_pts) < 2

default_grid(num_pts) ==
    LET grid == linspace(RatInt(0), Rat(1, 20), small_pts(num_pts))
        q == linspace(RatInt(0), RatInt(1), large_pts(num_pts))
        dq == RatSub(q[2], q[1])
        x_start == grid[Len(grid)]
        dx_start == RatSub(grid[Len(grid)], grid[Len(grid) - 1])
        d == x_start
        c == RatDiv(dx_start, dq)
        b == RatDiv(RatMul(RatInt(0 - 3),
                           RatAdd(RatAdd(RatNeg(dq), dx_start), RatMul(dq, x_start))),
                    dq)
        a == RatDiv(RatMul(RatInt(0 - 2), b), RatInt(3))
        cubic(t) == RatAdd(RatAdd(RatAdd(RatMul(a, RatPow(t, 3)), RatMul(b, RatPow(t, 2))),
                                  RatMul(c, t)),
                           d)
        n == Len(grid) - 1
    IN  [i \in 1..(n + large_pts(num_pts)) |-> IF i <= n THEN grid[i] ELSE cubic(q[i - n])]

(***************************************************************************)
(* default_grid as the program computes it, in binary floating point.      *)
(* A floating-point number is <<m, e>>, standing for m * 2^e, with m = 0   *)
(* (and e = 0) or 2^(Precision-1) <= |m| < 2^Precision.  Every operation   *)
(* gives the exact result rounded to the nearest such number, ties to the  *)
(* even m, as IEEE 754 does.  Precision stands for the 53 bits of a        *)
(* double; the exponent range is not limited.                              *)
(***************************************************************************)
Precision == 12

RECURSIVE Pow2(_)
Pow2(k) == IF k = 0 THEN 1 ELSE 2 * Pow2(k - 1)

RECURSIVE BitLen(_)
BitLen(a) == IF a = 0 THEN 0 ELSE 1 + BitLen(a \div 2)

Sign(n) == IF n < 0 THEN 0 - 1 ELSE 1

\* n * 2^e, plus a fraction of 2^e when sticky, rounded to Precision bits.
FloatRound(n, e, sticky) ==
    IF n = 0 THEN <<0, 0>>
    ELSE LET a == Abs(n)
             bits == BitLen(a)
         IN  IF bits <= Precision
             THEN <<Sign(n) * a * Pow2(Precision - bits), e - (Precision - bits)>>
             ELSE LET k == bits - Precision
                      q == a \div Pow2(k)
                      r == a % Pow2(k)
                      half == Pow2(k - 1)
                      up == r > half \/ (r = half /\ (sticky \/ q % 2 = 1))
                      m == IF up THEN q + 1 ELSE q
                  IN  IF m = Pow2(Precision)
                      THEN <<Sign(n) * Pow2(Precision - 1), e + k + 1>>
                      ELSE <<Sign(n) * m, e + k>>

FloatInt(i) == FloatRound(i, 0, FALSE)

FloatNeg(x) == <<0 - x[1], x[2]>>

FloatTimes(x, y) == FloatRound(x[1] * y[1], x[2] + y[2], FALSE)

\* The operand of the smaller exponent is lost when it is below an eighth of the
\* last place of the other one.
FloatPlus(x, y) ==
    IF x[1] = 0 THEN y
    ELSE IF y[1] = 0 THEN x
    ELSE LET hi == IF x[2] >= y[2] THEN x ELSE y
             lo == IF x[2] >= y[2] THEN y ELSE x
             d == hi[2] - lo[2]
         IN  IF d > Precision + 2 THEN hi
             ELSE FloatRound(hi[1] * Pow2(d) + lo[1], lo[2], FALSE)

FloatMinus(x, y) == FloatPlus(x, FloatNeg(y))

\* y is not 0.
FloatOver(x, y) ==
    IF x[1] = 0 THEN <<0, 0>>
    ELSE LET n == Abs(x[1]) * Pow2(Precision + 2)
             q == n \div Abs(y[1])
             r == n % Abs(y[1])
         IN  FloatRound(Sign(x[1]) * Sign(y[1]) * q, x[2] - y[2] - (Precision + 2), r # 0)

\* x**3: the exact cube, rounded once.
FloatCube(x) ==
    IF x[1] = 0 THEN x
    ELSE LET m == Abs(x[1])
             hi == (m * m) \div Pow2(Precision)
             lo == (m * m) % Pow2(Precision)
             t == hi * m + ((lo * m) \div Pow2(Precision))
         IN  FloatRound(Sign(x[1]) * t, 3 * x[2] + Precision, (lo * m) % Pow2(Precision) # 0)

FloatLess(x, y) == FloatMinus(x, y)[1] < 0

\* numpy.linspace(start, stop, num): arange(0, num) * step + start, the last
\* entry set to stop.
linspace_float(start, stop, num) ==
    LET step == FloatOver(FloatMinus(stop, start), FloatInt(num - 1))
    IN  [i \in 1..num |->
            IF num = 1 THEN start
            ELSE IF i = num THEN stop
            ELSE FloatPlus(FloatTimes(FloatInt(i - 1), step), start)]

default_grid_float(num_pts) ==
    LET grid == linspace_float(FloatInt(0), FloatOver(FloatInt(1), FloatInt(20)),
                               small_pts(num_pts))
        q == linspace_float(FloatInt(0), FloatInt(1), large_pts(num_pts))
        dq == FloatMinus(q[2], q[1])
        x_start == grid[Len(grid)]
        dx_start == FloatMinus(grid[Len(grid)], grid[Len(grid) - 1])
        d == x_start
        c == FloatOver(dx_start, dq)
        b == FloatOver(FloatTimes(FloatInt(0 - 3),
                                  FloatPlus(FloatPlus(FloatNeg(dq), dx_start),
                                            FloatTimes(dq, x_start))),
                       dq)
        a == FloatOver(FloatTimes(FloatInt(0 - 2), b), FloatInt(3))
        cubic(t) ==
            FloatPlus(FloatPlus(FloatPlus(FloatTimes(a, FloatCube(t)),
                                          FloatTimes(b, FloatTimes(t, t))),
                                FloatTimes(c, t)),
                      d)
        n == Len(grid) - 1
    IN  [i \in 1..(n + large_pts(num_pts)) |-> IF i <= n THEN grid[i] ELSE cubic(q[i - n])]

(***************************************************************************)
(* Arithmetic of the extrapolators.  They multiply up to fifteen position  *)
(* differences, which leaves the machine range, so inside them a number is *)
(* n / (d * GridUnit^e): n and d are integers of unbounded size, written   *)
(* least digit first in digits -Half..Base-1-Half of base Base (every      *)
(* integer has exactly one such form, so equal integers are equal tuples). *)
(* A division by zero gives NonFinite (numpy's inf or nan), which every    *)
(* later operation hands on.                                               *)
(***************************************************************************)
Base == 10001

Half == Base \div 2

Digit(v) == ((v + Half) % Base) - Half

RECURSIVE Carry(_, _)
Carry(s, c) ==
    IF s = <<>>
    THEN IF c = 0 THEN <<>> ELSE <<Digit(c)>> \o Carry(<<>>, (c - Digit(c)) \div Base)
    ELSE LET v == s[1] + c
         IN  <<Digit(v)>> \o Carry(Tail(s), (v - Digit(v)) \div Base)

RECURSIVE Trim(_)
Trim(s) ==
    IF s = <<>> \/ s[Len(s)] # 0 THEN s ELSE Trim(SubSeq(s, 1, Len(s) - 1))

BNorm(s) == Trim(Carry(s, 0))

BInt(i) == BNorm(<<i>>)

BZero == <<>>

BOne == <<1>>

BAt(a, k) == IF k <= Len(a) THEN a[k] ELSE 0

BAdd(a, b) == BNorm([k \in 1..Max(Len(a), Len(b)) |-> BAt(a, k) + BAt(b, k)])

BNeg(a) == BNorm([k \in 1..Len(a) |-> 0 - a[k]])

RECURSIVE Conv(_, _, _, _)
Conv(a, b, k, i) ==
    IF i > Min(Len(a), k) THEN 0 ELSE a[i] * b[k + 1 - i] + Conv(a, b, k, i + 1)

BMul(a, b) ==
    IF a = BZero \/ b = BZero THEN BZero
    ELSE IF a = BOne THEN b
    ELSE IF b = BOne THEN a
    ELSE BNorm([k \in 1..(Len(a) + Len(b) - 1) |-> Conv(a, b, k, Max(1, k + 1 - Len(b)))])

RECURSIVE BPow(_, _)
BPow(a, k) == IF k = 0 THEN BOne ELSE BMul(a, BPow(a, k - 1))

(***************************************************************************)
(* The resolutions a caller may put in a resolutions sequence: 10 is       *)
(* refused by default_grid, 40 and 45 share floor(r / 10), the others are  *)
(* the customary 20, 30, ... with six different first grid spacings.       *)
(***************************************************************************)
ResList == <<10, 20, 30, 40, 45, 50, 60, 70>>

Resolutions == {ResList[i] : i \in 1..Len(ResList)}

\* A common denominator of the first grid spacings 1/20, 1/40, ..., 1/120 of the
\* resolutions above.  Num below is exact whatever this number is; with a common
\* denominator the sums inside the extrapolators keep one denominator.
GridUnit == 20 * 60

GU == BInt(GridUnit)

NonFinite == [n |-> BZero, d |-> BZero, e |-> 0]

IsFinite(a) == a.d # BZero

\* The number a reduced fraction <<p, q>> stands for.
Num(r) ==
    IF r[2] = 1 THEN [n |-> BInt(r[1]), d |-> BOne, e |-> 0]
    ELSE IF GridUnit % r[2] = 0
    THEN [n |-> BInt(r[1] * (GridUnit \div r[2])), d |-> BOne, e |-> 1]
    ELSE [n |-> BInt(r[1]), d |-> BInt(r[2]), e |-> 0]

Neg(a) == IF IsFinite(a) THEN [a EXCEPT !.n = BNeg(a.n)] ELSE NonFinite

NumAdd(a, b) ==
    IF ~IsFinite(a) \/ ~IsFinite(b) THEN NonFinite
    ELSE IF a.d = b.d /\ a.e = b.e THEN [a EXCEPT !.n = BAdd(a.n, b.n)]
    ELSE LET e == Max(a.e, b.e)
             an == BMul(a.n, BPow(GU, e - a.e))
             bn == BMul(b.n, BPow(GU, e - b.e))
         IN  [n |-> BAdd(BMul(an, b.d), BMul(bn, a.d)), d |-> BMul(a.d, b.d), e |-> e]

NumSub(a, b) == NumAdd(a, Neg(b))

NumMul(a, b) ==
    IF ~IsFinite(a) \/ ~IsFinite(b) THEN NonFinite
    ELSE [n |-> BMul(a.n, b.n), d |-> BMul(a.d, b.d), e |-> a.e + b.e]

NumDiv(a, b) ==
    IF ~IsFinite(a) \/ ~IsFinite(b) \/ b.n = BZero THEN NonFinite
    ELSE LET m == Min(a.e, b.e)
         IN  [n |-> BMul(BMul(a.n, b.d), BPow(GU, b.e - m)),
              d |-> BMul(BMul(a.d, b.n), BPow(GU, a.e - m)),
              e |-> 0]

\* Equality of the numbers two forms stand for; NonFinite equals nothing.
NumEq(a, b) ==
    /\ IsFinite(a)
    /\ IsFinite(b)
    /\ LET m == Min(a.e, b.e)
       IN  BMul(BMul(a.n, b.d), BPow(GU, b.e - m)) = BMul(BMul(b.n, a.d), BPow(GU, a.e - m))

a (+) b == NumAdd(a, b)

a (-) b == NumSub(a, b)

a (.) b == NumMul(a, b)

a (/) b == NumDiv(a, b)

RECURSIVE Power(_, _)
Power(a, k) == IF k = 1 THEN a ELSE a (.) Power(a, k - 1)

(***************************************************************************)
(* The extrapolators to x = 0.  Each body is the program's return          *)
(* expression, term for term: (+) (-) (.) (/) for + - * /, Neg for unary   *)
(* minus, Power for numpy.power.  ys and xs are the two argument tuples.   *)
(***************************************************************************)
\* A faulty variant of linear_extrap: a sign is wrong.
linear_extrap_sign(ys, xs) == ((xs[2] (.) ys[1]) (+) (xs[1] (.) ys[2])) (/) (xs[2] (-) xs[1])

linear_extrap(ys, xs) ==
    LET
        y1 == ys[1]
        y2 == ys[2]
        x1 == xs[1]
        x2 == xs[2]
    IN
        ((x2 (.) y1) (-) (x1 (.) y2)) (/) (x2 (-) x1)

\* A faulty variant of quadratic_extrap: the third point is left out.
quadratic_extrap_two(ys, xs) == linear_extrap(ys, xs)

quadratic_extrap(ys, xs) ==
    LET
        y1 == ys[1]
        y2 == ys[2]
        y3 == ys[3]
        x1 == xs[1]
        x2 == xs[2]
        x3 == xs[3]
    IN
        ((((x2 (.) x3) (/) ((x1 (-) x2) (.) (x1 (-) x3))) (.) y1) (+) (((x1 (.) x3) (/) ((x2 (-)
        x1) (.) (x2 (-) x3))) (.) y2)) (+) (((x1 (.) x2) (/) ((x3 (-) x1) (.) (x3 (-) x2))) (.)
        y3)

cubic_extrap(ys, xs) ==
    LET
        y1 == ys[1]
        y2 == ys[2]
        y3 == ys[3]
        y4 == ys[4]
        x1 == xs[1]
        x2 == xs[2]
        x3 == xs[3]
        x4 == xs[4]
    IN
        ((((((((((x1 (.) (x1 (-) x3)) (.) x3) (.) (x1 (-) x4)) (.) (x3 (-) x4)) (.) x4) (.) y2)
        (+) ((x2 (.) Power(x4, 2)) (.) ((Neg((Power(x3, 3) (.) y1)) (+) ((Power(x3, 2) (.) x4)
        (.) y1)) (+) ((Power(x1, 2) (.) (x1 (-) x4)) (.) y3)))) (+) ((((Power(x1, 2) (.) x2) (.)
        Power(x3, 2)) (.) (Neg(x1) (+) x3)) (.) y4)) (+) (Power(x2, 3) (.) ((x4 (.)
        ((Neg((Power(x3, 2) (.) y1)) (+) ((x3 (.) x4) (.) y1)) (+) ((x1 (.) (x1 (-) x4)) (.)
        y3))) (+) (((x1 (.) x3) (.) (Neg(x1) (+) x3)) (.) y4)))) (+) (Power(x2, 2) (.) (((((x1
        (.) x4) (.) (Neg(Power(x1, 2)) (+) Power(x4, 2))) (.) y3) (+) (Power(x3, 3) (.) ((x4 (.)
        y1) (-) (x1 (.) y4)))) (+) (x3 (.) (Neg((Power(x4, 3) (.) y1)) (+) (Power(x1, 3) (.)
        y4)))))) (/) ((((((x1 (-) x2) (.) (x1 (-) x3)) (.) (x2 (-) x3)) (.) (x1 (-) x4)) (.) (x2
        (-) x4)) (.) (x3 (-) x4))

quartic_extrap(ys, xs) ==
    LET
        y1 == ys[1]
        y2 == ys[2]
        y3 == ys[3]
        y4 == ys[4]
        y5 == ys[5]
        x1 == xs[1]
        x2 == xs[2]
        x3 == xs[3]
        x4 == xs[4]
        x5 == xs[5]
    IN
        ((((Neg(((((((((((x1 (.) (x1 (-) x3)) (.) x3) (.) (x1 (-) x4)) (.) (x3 (-) x4)) (.) x4)
        (.) (x1 (-) x5)) (.) (x3 (-) x5)) (.) (x4 (-) x5)) (.) x5) (.) y2)) (+) (Power(x2, 4)
        (.) (((Neg(((((((x1 (.) (x1 (-) x4)) (.) x4) (.) (x1 (-) x5)) (.) (x4 (-) x5)) (.) x5)
        (.) y3)) (+) (Power(x3, 3) (.) (((((x1 (.) x5) (.) (Neg(x1) (+) x5)) (.) y4) (+)
        (Power(x4, 2) (.) ((x5 (.) y1) (-) (x1 (.) y5)))) (+) (x4 (.) (Neg((Power(x5, 2) (.)
        y1)) (+) (Power(x1, 2) (.) y5)))))) (+) (Power(x3, 2) (.) (((((x1 (.) x5) (.) (Power(x1,
        2) (-) Power(x5, 2))) (.) y4) (+) (Power(x4, 3) (.) (Neg((x5 (.) y1)) (+) (x1 (.) y5))))
        (+) (x4 (.) ((Power(x5, 3) (.) y1) (-) (Power(x1, 3) (.) y5)))))) (+) (x3 (.)
        (((((Power(x1, 2) (.) Power(x5, 2)) (.) (Neg(x1) (+) x5)) (.) y4) (+) (Power(x4, 3) (.)
        ((Power(x5, 2) (.) y1) (-) (Power(x1, 2) (.) y5)))) (+) (Power(x4, 2) (.)
        (Neg((Power(x5, 3) (.) y1)) (+) (Power(x1, 3) (.) y5)))))))) (+) (Power(x2, 3) (.)
        (((((((x1 (.) x4) (.) x5) (.) (((Power(x1, 3) (.) (x4 (-) x5)) (+) ((x4 (.) x5) (.)
        (Power(x4, 2) (-) Power(x5, 2)))) (+) (x1 (.) (Neg(Power(x4, 3)) (+) Power(x5, 3)))))
        (.) y3) (+) (Power(x3, 4) (.) (((((x1 (.) (x1 (-) x5)) (.) x5) (.) y4) (+) (Power(x4, 2)
        (.) (Neg((x5 (.) y1)) (+) (x1 (.) y5)))) (+) (x4 (.) ((Power(x5, 2) (.) y1) (-)
        (Power(x1, 2) (.) y5)))))) (+) (x3 (.) (((((Power(x1, 2) (.) Power(x5, 2)) (.)
        (Power(x1, 2) (-) Power(x5, 2))) (.) y4) (+) (Power(x4, 4) (.) (Neg((Power(x5, 2) (.)
        y1)) (+) (Power(x1, 2) (.) y5)))) (+) (Power(x4, 2) (.) ((Power(x5, 4) (.) y1) (-)
        (Power(x1, 4) (.) y5)))))) (+) (Power(x3, 2) (.) (((((x1 (.) x5) (.) (Neg(Power(x1, 3))
        (+) Power(x5, 3))) (.) y4) (+) (Power(x4, 4) (.) ((x5 (.) y1) (-) (x1 (.) y5)))) (+) (x4
        (.) (Neg((Power(x5, 4) (.) y1)) (+) (Power(x1, 4) (.) y5)))))))) (+) (x2 (.)
        (((((((((Power(x1, 2) (.) (x1 (-) x4)) (.) Power(x4, 2)) (.) (x1 (-) x5)) (.) (x4 (-)
        x5)) (.) Power(x5, 2)) (.) y3) (+) (Power(x3, 4) (.) (((((Power(x1, 2) (.) (x1 (-) x5))
        (.) Power(x5, 2)) (.) y4) (+) (Power(x4, 3) (.) (Neg((Power(x5, 2) (.) y1)) (+)
        (Power(x1, 2) (.) y5)))) (+) (Power(x4, 2) (.) ((Power(x5, 3) (.) y1) (-) (Power(x1, 3)
        (.) y5)))))) (+) (Power(x3, 2) (.) (((((Power(x1, 3) (.) (x1 (-) x5)) (.) Power(x5, 3))
        (.) y4) (+) (Power(x4, 4) (.) (Neg((Power(x5, 3) (.) y1)) (+) (Power(x1, 3) (.) y5))))
        (+) (Power(x4, 3) (.) ((Power(x5, 4) (.) y1) (-) (Power(x1, 4) (.) y5)))))) (+)
        (Power(x3, 3) (.) (((((Power(x1, 2) (.) Power(x5, 2)) (.) (Neg(Power(x1, 2)) (+)
        Power(x5, 2))) (.) y4) (+) (Power(x4, 4) (.) ((Power(x5, 2) (.) y1) (-) (Power(x1, 2)
        (.) y5)))) (+) (Power(x4, 2) (.) (Neg((Power(x5, 4) (.) y1)) (+) (Power(x1, 4) (.)
        y5)))))))) (+) (Power(x2, 2) (.) (((((((x1 (.) x4) (.) x5) (.) ((((Power(x4, 2) (.)
        Power(x5, 2)) (.) (Neg(x4) (+) x5)) (+) (Power(x1, 3) (.) (Neg(Power(x4, 2)) (+)
        Power(x5, 2)))) (+) (Power(x1, 2) (.) (Power(x4, 3) (-) Power(x5, 3))))) (.) y3) (+)
        (Power(x3, 4) (.) (((((x1 (.) x5) (.) (Neg(Power(x1, 2)) (+) Power(x5, 2))) (.) y4) (+)
        (Power(x4, 3) (.) ((x5 (.) y1) (-) (x1 (.) y5)))) (+) (x4 (.) (Neg((Power(x5, 3) (.)
        y1)) (+) (Power(x1, 3) (.) y5)))))) (+) (Power(x3, 3) (.) (((((x1 (.) x5) (.) (Power(x1,
        3) (-) Power(x5, 3))) (.) y4) (+) (Power(x4, 4) (.) (Neg((x5 (.) y1)) (+) (x1 (.) y5))))
        (+) (x4 (.) ((Power(x5, 4) (.) y1) (-) (Power(x1, 4) (.) y5)))))) (+) (x3 (.)
        (((((Power(x1, 3) (.) Power(x5, 3)) (.) (Neg(x1) (+) x5)) (.) y4) (+) (Power(x4, 4) (.)
        ((Power(x5, 3) (.) y1) (-) (Power(x1, 3) (.) y5)))) (+) (Power(x4, 3) (.)
        (Neg((Power(x5, 4) (.) y1)) (+) (Power(x1, 4) (.) y5)))))))) (/) ((((((((((x1 (-) x2)
        (.) (x1 (-) x3)) (.) (x2 (-) x3)) (.) (x1 (-) x4)) (.) (x2 (-) x4)) (.) (x3 (-) x4)) (.)
        (x1 (-) x5)) (.) (x2 (-) x5)) (.) (x3 (-) x5)) (.) (x4 (-) x5))

quintic_extrap(ys, xs) ==
    LET
        y1 == ys[1]
        y2 == ys[2]
        y3 == ys[3]
        y4 == ys[4]
        y5 == ys[5]
        y6 == ys[6]
        x1 == xs[1]
        x2 == xs[2]
        x3 == xs[3]
        x4 == xs[4]
        x5 == xs[5]
        x6 == xs[6]
    IN
        (((((Neg((((((((((((((((x1 (.) (x1 (-) x3)) (.) x3) (.) (x1 (-) x4)) (.) (x3 (-) x4))
        (.) x4) (.) (x1 (-) x5)) (.) (x3 (-) x5)) (.) (x4 (-) x5)) (.) x5) (.) (x1 (-) x6)) (.)
        (x3 (-) x6)) (.) (x4 (-) x6)) (.) (x5 (-) x6)) (.) x6) (.) y2)) (+) (Power(x2, 5) (.)
        ((((Neg(((((((((((x1 (.) (x1 (-) x4)) (.) x4) (.) (x1 (-) x5)) (.) (x4 (-) x5)) (.) x5)
        (.) (x1 (-) x6)) (.) (x4 (-) x6)) (.) (x5 (-) x6)) (.) x6) (.) y3)) (+) (Power(x3, 4)
        (.) (((Neg(((((((x1 (.) (x1 (-) x5)) (.) x5) (.) (x1 (-) x6)) (.) (x5 (-) x6)) (.) x6)
        (.) y4)) (+) (Power(x4, 3) (.) (((((x1 (.) x6) (.) (Neg(x1) (+) x6)) (.) y5) (+)
        (Power(x5, 2) (.) ((x6 (.) y1) (-) (x1 (.) y6)))) (+) (x5 (.) (Neg((Power(x6, 2) (.)
        y1)) (+) (Power(x1, 2) (.) y6)))))) (+) (Power(x4, 2) (.) (((((x1 (.) x6) (.) (Power(x1,
        2) (-) Power(x6, 2))) (.) y5) (+) (Power(x5, 3) (.) (Neg((x6 (.) y1)) (+) (x1 (.) y6))))
        (+) (x5 (.) ((Power(x6, 3) (.) y1) (-) (Power(x1, 3) (.) y6)))))) (+) (x4 (.)
        (((((Power(x1, 2) (.) Power(x6, 2)) (.) (Neg(x1) (+) x6)) (.) y5) (+) (Power(x5, 3) (.)
        ((Power(x6, 2) (.) y1) (-) (Power(x1, 2) (.) y6)))) (+) (Power(x5, 2) (.)
        (Neg((Power(x6, 3) (.) y1)) (+) (Power(x1, 3) (.) y6)))))))) (+) (Power(x3, 3) (.)
        (((((((x1 (.) x5) (.) x6) (.) (((Power(x1, 3) (.) (x5 (-) x6)) (+) ((x5 (.) x6) (.)
        (Power(x5, 2) (-) Power(x6, 2)))) (+) (x1 (.) (Neg(Power(x5, 3)) (+) Power(x6, 3)))))
        (.) y4) (+) (Power(x4, 4) (.) (((((x1 (.) (x1 (-) x6)) (.) x6) (.) y5) (+) (Power(x5, 2)
        (.) (Neg((x6 (.) y1)) (+) (x1 (.) y6)))) (+) (x5 (.) ((Power(x6, 2) (.) y1) (-)
        (Power(x1, 2) (.) y6)))))) (+) (x4 (.) (((((Power(x1, 2) (.) Power(x6, 2)) (.)
        (Power(x1, 2) (-) Power(x6, 2))) (.) y5) (+) (Power(x5, 4) (.) (Neg((Power(x6, 2) (.)
        y1)) (+) (Power(x1, 2) (.) y6)))) (+) (Power(x5, 2) (.) ((Power(x6, 4) (.) y1) (-)
        (Power(x1, 4) (.) y6)))))) (+) (Power(x4, 2) (.) (((((x1 (.) x6) (.) (Neg(Power(x1, 3))
        (+) Power(x6, 3))) (.) y5) (+) (Power(x5, 4) (.) ((x6 (.) y1) (-) (x1 (.) y6)))) (+) (x5
        (.) (Neg((Power(x6, 4) (.) y1)) (+) (Power(x1, 4) (.) y6)))))))) (+) (x3 (.)
        (((((((((Power(x1, 2) (.) (x1 (-) x5)) (.) Power(x5, 2)) (.) (x1 (-) x6)) (.) (x5 (-)
        x6)) (.) Power(x6, 2)) (.) y4) (+) (Power(x4, 4) (.) (((((Power(x1, 2) (.) (x1 (-) x6))
        (.) Power(x6, 2)) (.) y5) (+) (Power(x5, 3) (.) (Neg((Power(x6, 2) (.) y1)) (+)
        (Power(x1, 2) (.) y6)))) (+) (Power(x5, 2) (.) ((Power(x6, 3) (.) y1) (-) (Power(x1, 3)
        (.) y6)))))) (+) (Power(x4, 2) (.) (((((Power(x1, 3) (.) (x1 (-) x6)) (.) Power(x6, 3))
        (.) y5) (+) (Power(x5, 4) (.) (Neg((Power(x6, 3) (.) y1)) (+) (Power(x1, 3) (.) y6))))
        (+) (Power(x5, 3) (.) ((Power(x6, 4) (.) y1) (-) (Power(x1, 4) (.) y6)))))) (+)
        (Power(x4, 3) (.) (((((Power(x1, 2) (.) Power(x6, 2)) (.) (Neg(Power(x1, 2)) (+)
        Power(x6, 2))) (.) y5) (+) (Power(x5, 4) (.) ((Power(x6, 2) (.) y1) (-) (Power(x1, 2)
        (.) y6)))) (+) (Power(x5, 2) (.) (Neg((Power(x6, 4) (.) y1)) (+) (Power(x1, 4) (.)
        y6)))))))) (+) (Power(x3, 2) (.) (((((((x1 (.) x5) (.) x6) (.) ((((Power(x5, 2) (.)
        Power(x6, 2)) (.) (Neg(x5) (+) x6)) (+) (Power(x1, 3) (.) (Neg(Power(x5, 2)) (+)
        Power(x6, 2)))) (+) (Power(x1, 2) (.) (Power(x5, 3) (-) Power(x6, 3))))) (.) y4) (+)
        (Power(x4, 4) (.) (((((x1 (.) x6) (.) (Neg(Power(x1, 2)) (+) Power(x6, 2))) (.) y5) (+)
        (Power(x5, 3) (.) ((x6 (.) y1) (-) (x1 (.) y6)))) (+) (x5 (.) (Neg((Power(x6, 3) (.)
        y1)) (+) (Power(x1, 3) (.) y6)))))) (+) (Power(x4, 3) (.) (((((x1 (.) x6) (.) (Power(x1,
        3) (-) Power(x6, 3))) (.) y5) (+) (Power(x5, 4) (.) (Neg((x6 (.) y1)) (+) (x1 (.) y6))))
        (+) (x5 (.) ((Power(x6, 4) (.) y1) (-) (Power(x1, 4) (.) y6)))))) (+) (x4 (.)
        (((((Power(x1, 3) (.) Power(x6, 3)) (.) (Neg(x1) (+) x6)) (.) y5) (+) (Power(x5, 4) (.)
        ((Power(x6, 3) (.) y1) (-) (Power(x1, 3) (.) y6)))) (+) (Power(x5, 3) (.)
        (Neg((Power(x6, 4) (.) y1)) (+) (Power(x1, 4) (.) y6)))))))))) (+) (Power(x2, 4) (.)
        (((((((((((((((x1 (.) (x1 (-) x4)) (.) x4) (.) (x1 (-) x5)) (.) (x4 (-) x5)) (.) x5) (.)
        (x1 (-) x6)) (.) (x4 (-) x6)) (.) (x5 (-) x6)) (.) x6) (.) (((x1 (+) x4) (+) x5) (+)
        x6)) (.) y3) (+) (Power(x3, 5) (.) (((((((((x1 (.) (x1 (-) x5)) (.) x5) (.) (x1 (-) x6))
        (.) (x5 (-) x6)) (.) x6) (.) y4) (+) (Power(x4, 3) (.) (((((x1 (.) (x1 (-) x6)) (.) x6)
        (.) y5) (+) (Power(x5, 2) (.) (Neg((x6 (.) y1)) (+) (x1 (.) y6)))) (+) (x5 (.)
        ((Power(x6, 2) (.) y1) (-) (Power(x1, 2) (.) y6)))))) (+) (x4 (.) (((((Power(x1, 2) (.)
        (x1 (-) x6)) (.) Power(x6, 2)) (.) y5) (+) (Power(x5, 3) (.) (Neg((Power(x6, 2) (.) y1))
        (+) (Power(x1, 2) (.) y6)))) (+) (Power(x5, 2) (.) ((Power(x6, 3) (.) y1) (-) (Power(x1,
        3) (.) y6)))))) (+) (Power(x4, 2) (.) (((((x1 (.) x6) (.) (Neg(Power(x1, 2)) (+)
        Power(x6, 2))) (.) y5) (+) (Power(x5, 3) (.) ((x6 (.) y1) (-) (x1 (.) y6)))) (+) (x5 (.)
        (Neg((Power(x6, 3) (.) y1)) (+) (Power(x1, 3) (.) y6)))))))) (+) (Power(x3, 2) (.)
        (((((((((x1 (.) x5) (.) (Power(x1, 2) (-) Power(x5, 2))) (.) x6) (.) (Power(x1, 2) (-)
        Power(x6, 2))) (.) (Power(x5, 2) (-) Power(x6, 2))) (.) y4) (+) (Power(x4, 5) (.)
        (((((x1 (.) x6) (.) (Power(x1, 2) (-) Power(x6, 2))) (.) y5) (+) (Power(x5, 3) (.)
        (Neg((x6 (.) y1)) (+) (x1 (.) y6)))) (+) (x5 (.) ((Power(x6, 3) (.) y1) (-) (Power(x1,
        3) (.) y6)))))) (+) (x4 (.) (((((Power(x1, 3) (.) Power(x6, 3)) (.) (Power(x1, 2) (-)
        Power(x6, 2))) (.) y5) (+) (Power(x5, 5) (.) (Neg((Power(x6, 3) (.) y1)) (+) (Power(x1,
        3) (.) y6)))) (+) (Power(x5, 3) (.) ((Power(x6, 5) (.) y1) (-) (Power(x1, 5) (.)
        y6)))))) (+) (Power(x4, 3) (.) (((((x1 (.) x6) (.) (Neg(Power(x1, 4)) (+) Power(x6, 4)))
        (.) y5) (+) (Power(x5, 5) (.) ((x6 (.) y1) (-) (x1 (.) y6)))) (+) (x5 (.)
        (Neg((Power(x6, 5) (.) y1)) (+) (Power(x1, 5) (.) y6)))))))) (+) (Power(x3, 3) (.)
        (((((((x1 (.) x5) (.) x6) (.) (((Neg((Power(x5, 4) (.) x6)) (+) (x5 (.) Power(x6, 4)))
        (+) (Power(x1, 4) (.) (Neg(x5) (+) x6))) (+) (x1 (.) (Power(x5, 4) (-) Power(x6, 4)))))
        (.) y4) (+) (Power(x4, 5) (.) (((((x1 (.) x6) (.) (Neg(x1) (+) x6)) (.) y5) (+)
        (Power(x5, 2) (.) ((x6 (.) y1) (-) (x1 (.) y6)))) (+) (x5 (.) (Neg((Power(x6, 2) (.)
        y1)) (+) (Power(x1, 2) (.) y6)))))) (+) (Power(x4, 2) (.) (((((x1 (.) x6) (.) (Power(x1,
        4) (-) Power(x6, 4))) (.) y5) (+) (Power(x5, 5) (.) (Neg((x6 (.) y1)) (+) (x1 (.) y6))))
        (+) (x5 (.) ((Power(x6, 5) (.) y1) (-) (Power(x1, 5) (.) y6)))))) (+) (x4 (.)
        (((((Power(x1, 2) (.) Power(x6, 2)) (.) (Neg(Power(x1, 3)) (+) Power(x6, 3))) (.) y5)
        (+) (Power(x5, 5) (.) ((Power(x6, 2) (.) y1) (-) (Power(x1, 2) (.) y6)))) (+) (Power(x5,
        2) (.) (Neg((Power(x6, 5) (.) y1)) (+) (Power(x1, 5) (.) y6)))))))) (+) (x3 (.)
        (((((((Power(x1, 2) (.) Power(x5, 2)) (.) Power(x6, 2)) (.) (((Neg((Power(x5, 3) (.)
        x6)) (+) (x5 (.) Power(x6, 3))) (+) (Power(x1, 3) (.) (Neg(x5) (+) x6))) (+) (x1 (.)
        (Power(x5, 3) (-) Power(x6, 3))))) (.) y4) (+) (Power(x4, 5) (.) (((((Power(x1, 2) (.)
        Power(x6, 2)) (.) (Neg(x1) (+) x6)) (.) y5) (+) (Power(x5, 3) (.) ((Power(x6, 2) (.) y1)
        (-) (Power(x1, 2) (.) y6)))) (+) (Power(x5, 2) (.) (Neg((Power(x6, 3) (.) y1)) (+)
        (Power(x1, 3) (.) y6)))))) (+) (Power(x4, 3) (.) (((((Power(x1, 2) (.) Power(x6, 2)) (.)
        (Power(x1, 3) (-) Power(x6, 3))) (.) y5) (+) (Power(x5, 5) (.) (Neg((Power(x6, 2) (.)
        y1)) (+) (Power(x1, 2) (.) y6)))) (+) (Power(x5, 2) (.) ((Power(x6, 5) (.) y1) (-)
        (Power(x1, 5) (.) y6)))))) (+) (Power(x4, 2) (.) (((((Power(x1, 3) (.) Power(x6, 3)) (.)
        (Neg(Power(x1, 2)) (+) Power(x6, 2))) (.) y5) (+) (Power(x5, 5) (.) ((Power(x6, 3) (.)
        y1) (-) (Power(x1, 3) (.) y6)))) (+) (Power(x5, 3) (.) (Neg((Power(x6, 5) (.) y1)) (+)
        (Power(x1, 5) (.) y6)))))))))) (+) (Power(x2, 3) (.) ((((Neg((((((((((((x1 (.) (x1 (-)
        x4)) (.) x4) (.) (x1 (-) x5)) (.) (x4 (-) x5)) (.) x5) (.) (x1 (-) x6)) (.) (x4 (-) x6))
        (.) (x5 (-) x6)) (.) x6) (.) (((x5 (.) x6) (+) (x4 (.) (x5 (+) x6))) (+) (x1 (.) ((x4
        (+) x5) (+) x6)))) (.) y3)) (+) (Power(x3, 5) (.) (((((((x1 (.) x5) (.) x6) (.)
        (((Neg((Power(x5, 3) (.) x6)) (+) (x5 (.) Power(x6, 3))) (+) (Power(x1, 3) (.) (Neg(x5)
        (+) x6))) (+) (x1 (.) (Power(x5, 3) (-) Power(x6, 3))))) (.) y4) (+) (Power(x4, 4) (.)
        (((((x1 (.) x6) (.) (Neg(x1) (+) x6)) (.) y5) (+) (Power(x5, 2) (.) ((x6 (.) y1) (-) (x1
        (.) y6)))) (+) (x5 (.) (Neg((Power(x6, 2) (.) y1)) (+) (Power(x1, 2) (.) y6)))))) (+)
        (Power(x4, 2) (.) (((((x1 (.) x6) (.) (Power(x1, 3) (-) Power(x6, 3))) (.) y5) (+)
        (Power(x5, 4) (.) (Neg((x6 (.) y1)) (+) (x1 (.) y6)))) (+) (x5 (.) ((Power(x6, 4) (.)
        y1) (-) (Power(x1, 4) (.) y6)))))) (+) (x4 (.) (((((Power(x1, 2) (.) Power(x6, 2)) (.)
        (Neg(Power(x1, 2)) (+) Power(x6, 2))) (.) y5) (+) (Power(x5, 4) (.) ((Power(x6, 2) (.)
        y1) (-) (Power(x1, 2) (.) y6)))) (+) (Power(x5, 2) (.) (Neg((Power(x6, 4) (.) y1)) (+)
        (Power(x1, 4) (.) y6)))))))) (+) (Power(x3, 4) (.) (((((((x1 (.) x5) (.) x6) (.)
        (((Power(x1, 4) (.) (x5 (-) x6)) (+) ((x5 (.) x6) (.) (Power(x5, 3) (-) Power(x6, 3))))
        (+) (x1 (.) (Neg(Power(x5, 4)) (+) Power(x6, 4))))) (.) y4) (+) (Power(x4, 5) (.)
        (((((x1 (.) (x1 (-) x6)) (.) x6) (.) y5) (+) (Power(x5, 2) (.) (Neg((x6 (.) y1)) (+) (x1
        (.) y6)))) (+) (x5 (.) ((Power(x6, 2) (.) y1) (-) (Power(x1, 2) (.) y6)))))) (+) (x4 (.)
        (((((Power(x1, 2) (.) Power(x6, 2)) (.) (Power(x1, 3) (-) Power(x6, 3))) (.) y5) (+)
        (Power(x5, 5) (.) (Neg((Power(x6, 2) (.) y1)) (+) (Power(x1, 2) (.) y6)))) (+)
        (Power(x5, 2) (.) ((Power(x6, 5) (.) y1) (-) (Power(x1, 5) (.) y6)))))) (+) (Power(x4,
        2) (.) (((((x1 (.) x6) (.) (Neg(Power(x1, 4)) (+) Power(x6, 4))) (.) y5) (+) (Power(x5,
        5) (.) ((x6 (.) y1) (-) (x1 (.) y6)))) (+) (x5 (.) (Neg((Power(x6, 5) (.) y1)) (+)
        (Power(x1, 5) (.) y6)))))))) (+) (x3 (.) (((((((Power(x1, 2) (.) Power(x5, 2)) (.)
        Power(x6, 2)) (.) ((((Power(x5, 2) (.) (x5 (-) x6)) (.) Power(x6, 2)) (+) (Power(x1, 3)
        (.) (Power(x5, 2) (-) Power(x6, 2)))) (+) (Power(x1, 2) (.) (Neg(Power(x5, 3)) (+)
        Power(x6, 3))))) (.) y4) (+) (Power(x4, 5) (.) (((((Power(x1, 2) (.) Power(x6, 2)) (.)
        (Power(x1, 2) (-) Power(x6, 2))) (.) y5) (+) (Power(x5, 4) (.) (Neg((Power(x6, 2) (.)
        y1)) (+) (Power(x1, 2) (.) y6)))) (+) (Power(x5, 2) (.) ((Power(x6, 4) (.) y1) (-)
        (Power(x1, 4) (.) y6)))))) (+) (Power(x4, 2) (.) (((((Power(x1, 4) (.) (x1 (-) x6)) (.)
        Power(x6, 4)) (.) y5) (+) (Power(x5, 5) (.) (Neg((Power(x6, 4) (.) y1)) (+) (Power(x1,
        4) (.) y6)))) (+) (Power(x5, 4) (.) ((Power(x6, 5) (.) y1) (-) (Power(x1, 5) (.)
        y6)))))) (+) (Power(x4, 4) (.) (((((Power(x1, 2) (.) Power(x6, 2)) (.) (Neg(Power(x1,
        3)) (+) Power(x6, 3))) (.) y5) (+) (Power(x5, 5) (.) ((Power(x6, 2) (.) y1) (-)
        (Power(x1, 2) (.) y6)))) (+) (Power(x5, 2) (.) (Neg((Power(x6, 5) (.) y1)) (+)
        (Power(x1, 5) (.) y6)))))))) (+) (Power(x3, 2) (.) (((((((x1 (.) x5) (.) x6) (.)
        ((((Power(x5, 3) (.) Power(x6, 3)) (.) (Neg(x5) (+) x6)) (+) (Power(x1, 4) (.)
        (Neg(Power(x5, 3)) (+) Power(x6, 3)))) (+) (Power(x1, 3) (.) (Power(x5, 4) (-) Power(x6,
        4))))) (.) y4) (+) (Power(x4, 5) (.) (((((x1 (.) x6) (.) (Neg(Power(x1, 3)) (+)
        Power(x6, 3))) (.) y5) (+) (Power(x5, 4) (.) ((x6 (.) y1) (-) (x1 (.) y6)))) (+) (x5 (.)
        (Neg((Power(x6, 4) (.) y1)) (+) (Power(x1, 4) (.) y6)))))) (+) (Power(x4, 4) (.) (((((x1
        (.) x6) (.) (Power(x1, 4) (-) Power(x6, 4))) (.) y5) (+) (Power(x5, 5) (.) (Neg((x6 (.)
        y1)) (+) (x1 (.) y6)))) (+) (x5 (.) ((Power(x6, 5) (.) y1) (-) (Power(x1, 5) (.)
        y6)))))) (+) (x4 (.) (((((Power(x1, 4) (.) Power(x6, 4)) (.) (Neg(x1) (+) x6)) (.) y5)
        (+) (Power(x5, 5) (.) ((Power(x6, 4) (.) y1) (-) (Power(x1, 4) (.) y6)))) (+) (Power(x5,
        4) (.) (Neg((Power(x6, 5) (.) y1)) (+) (Power(x1, 5) (.) y6)))))))))) (+) (x2 (.)
        ((((Neg(((((((((((Power(x1, 2) (.) (x1 (-) x4)) (.) Power(x4, 2)) (.) (x1 (-) x5)) (.)
        (x4 (-) x5)) (.) Power(x5, 2)) (.) (x1 (-) x6)) (.) (x4 (-) x6)) (.) (x5 (-) x6)) (.)
        Power(x6, 2)) (.) y3)) (+) (Power(x3, 5) (.) (((Neg(((((((Power(x1, 2) (.) (x1 (-) x5))
        (.) Power(x5, 2)) (.) (x1 (-) x6)) (.) (x5 (-) x6)) (.) Power(x6, 2)) (.) y4)) (+)
        (Power(x4, 4) (.) (((((Power(x1, 2) (.) Power(x6, 2)) (.) (Neg(x1) (+) x6)) (.) y5) (+)
        (Power(x5, 3) (.) ((Power(x6, 2) (.) y1) (-) (Power(x1, 2) (.) y6)))) (+) (Power(x5, 2)
        (.) (Neg((Power(x6, 3) (.) y1)) (+) (Power(x1, 3) (.) y6)))))) (+) (Power(x4, 3) (.)
        (((((Power(x1, 2) (.) Power(x6, 2)) (.) (Power(x1, 2) (-) Power(x6, 2))) (.) y5) (+)
        (Power(x5, 4) (.) (Neg((Power(x6, 2) (.) y1)) (+) (Power(x1, 2) (.) y6)))) (+)
        (Power(x5, 2) (.) ((Power(x6, 4) (.) y1) (-) (Power(x1, 4) (.) y6)))))) (+) (Power(x4,
        2) (.) (((((Power(x1, 3) (.) Power(x6, 3)) (.) (Neg(x1) (+) x6)) (.) y5) (+) (Power(x5,
        4) (.) ((Power(x6, 3) (.) y1) (-) (Power(x1, 3) (.) y6)))) (+) (Power(x5, 3) (.)
        (Neg((Power(x6, 4) (.) y1)) (+) (Power(x1, 4) (.) y6)))))))) (+) (Power(x3, 4) (.)
        (((((((Power(x1, 2) (.) Power(x5, 2)) (.) Power(x6, 2)) (.) (((Power(x1, 3) (.) (x5 (-)
        x6)) (+) ((x5 (.) x6) (.) (Power(x5, 2) (-) Power(x6, 2)))) (+) (x1 (.) (Neg(Power(x5,
        3)) (+) Power(x6, 3))))) (.) y4) (+) (Power(x4, 5) (.) (((((Power(x1, 2) (.) (x1 (-)
        x6)) (.) Power(x6, 2)) (.) y5) (+) (Power(x5, 3) (.) (Neg((Power(x6, 2) (.) y1)) (+)
        (Power(x1, 2) (.) y6)))) (+) (Power(x5, 2) (.) ((Power(x6, 3) (.) y1) (-) (Power(x1, 3)
        (.) y6)))))) (+) (Power(x4, 2) (.) (((((Power(x1, 3) (.) Power(x6, 3)) (.) (Power(x1, 2)
        (-) Power(x6, 2))) (.) y5) (+) (Power(x5, 5) (.) (Neg((Power(x6, 3) (.) y1)) (+)
        (Power(x1, 3) (.) y6)))) (+) (Power(x5, 3) (.) ((Power(x6, 5) (.) y1) (-) (Power(x1, 5)
        (.) y6)))))) (+) (Power(x4, 3) (.) (((((Power(x1, 2) (.) Power(x6, 2)) (.)
        (Neg(Power(x1, 3)) (+) Power(x6, 3))) (.) y5) (+) (Power(x5, 5) (.) ((Power(x6, 2) (.)
        y1) (-) (Power(x1, 2) (.) y6)))) (+) (Power(x5, 2) (.) (Neg((Power(x6, 5) (.) y1)) (+)
        (Power(x1, 5) (.) y6)))))))) (+) (Power(x3, 2) (.) (((((((((Power(x1, 3) (.) (x1 (-)
        x5)) (.) Power(x5, 3)) (.) (x1 (-) x6)) (.) (x5 (-) x6)) (.) Power(x6, 3)) (.) y4) (+)
        (Power(x4, 5) (.) (((((Power(x1, 3) (.) (x1 (-) x6)) (.) Power(x6, 3)) (.) y5) (+)
        (Power(x5, 4) (.) (Neg((Power(x6, 3) (.) y1)) (+) (Power(x1, 3) (.) y6)))) (+)
        (Power(x5, 3) (.) ((Power(x6, 4) (.) y1) (-) (Power(x1, 4) (.) y6)))))) (+) (Power(x4,
        3) (.) (((((Power(x1, 4) (.) (x1 (-) x6)) (.) Power(x6, 4)) (.) y5) (+) (Power(x5, 5)
        (.) (Neg((Power(x6, 4) (.) y1)) (+) (Power(x1, 4) (.) y6)))) (+) (Power(x5, 4) (.)
        ((Power(x6, 5) (.) y1) (-) (Power(x1, 5) (.) y6)))))) (+) (Power(x4, 4) (.)
        (((((Power(x1, 3) (.) Power(x6, 3)) (.) (Neg(Power(x1, 2)) (+) Power(x6, 2))) (.) y5)
        (+) (Power(x5, 5) (.) ((Power(x6, 3) (.) y1) (-) (Power(x1, 3) (.) y6)))) (+) (Power(x5,
        3) (.) (Neg((Power(x6, 5) (.) y1)) (+) (Power(x1, 5) (.) y6)))))))) (+) (Power(x3, 3)
        (.) (((((((Power(x1, 2) (.) Power(x5, 2)) (.) Power(x6, 2)) (.) ((((Power(x5, 2) (.)
        Power(x6, 2)) (.) (Neg(x5) (+) x6)) (+) (Power(x1, 3) (.) (Neg(Power(x5, 2)) (+)
        Power(x6, 2)))) (+) (Power(x1, 2) (.) (Power(x5, 3) (-) Power(x6, 3))))) (.) y4) (+)
        (Power(x4, 5) (.) (((((Power(x1, 2) (.) Power(x6, 2)) (.) (Neg(Power(x1, 2)) (+)
        Power(x6, 2))) (.) y5) (+) (Power(x5, 4) (.) ((Power(x6, 2) (.) y1) (-) (Power(x1, 2)
        (.) y6)))) (+) (Power(x5, 2) (.) (Neg((Power(x6, 4) (.) y1)) (+) (Power(x1, 4) (.)
        y6)))))) (+) (Power(x4, 4) (.) (((((Power(x1, 2) (.) Power(x6, 2)) (.) (Power(x1, 3) (-)
        Power(x6, 3))) (.) y5) (+) (Power(x5, 5) (.) (Neg((Power(x6, 2) (.) y1)) (+) (Power(x1,
        2) (.) y6)))) (+) (Power(x5, 2) (.) ((Power(x6, 5) (.) y1) (-) (Power(x1, 5) (.)
        y6)))))) (+) (Power(x4, 2) (.) (((((Power(x1, 4) (.) Power(x6, 4)) (.) (Neg(x1) (+) x6))
        (.) y5) (+) (Power(x5, 5) (.) ((Power(x6, 4) (.) y1) (-) (Power(x1, 4) (.) y6)))) (+)
        (Power(x5, 4) (.) (Neg((Power(x6, 5) (.) y1)) (+) (Power(x1, 5) (.) y6)))))))))) (+)
        (Power(x2, 2) (.) (((((((((((((((x1 (.) (x1 (-) x4)) (.) x4) (.) (x1 (-) x5)) (.) (x4
        (-) x5)) (.) x5) (.) (x1 (-) x6)) (.) (x4 (-) x6)) (.) (x5 (-) x6)) (.) x6) (.) (((x4
        (.) x5) (.) x6) (+) (x1 (.) ((x5 (.) x6) (+) (x4 (.) (x5 (+) x6)))))) (.) y3) (+)
        (Power(x3, 5) (.) (((((((x1 (.) x5) (.) x6) (.) ((((Power(x5, 2) (.) (x5 (-) x6)) (.)
        Power(x6, 2)) (+) (Power(x1, 3) (.) (Power(x5, 2) (-) Power(x6, 2)))) (+) (Power(x1, 2)
        (.) (Neg(Power(x5, 3)) (+) Power(x6, 3))))) (.) y4) (+) (Power(x4, 4) (.) (((((x1 (.)
        x6) (.) (Power(x1, 2) (-) Power(x6, 2))) (.) y5) (+) (Power(x5, 3) (.) (Neg((x6 (.) y1))
        (+) (x1 (.) y6)))) (+) (x5 (.) ((Power(x6, 3) (.) y1) (-) (Power(x1, 3) (.) y6)))))) (+)
        (x4 (.) (((((Power(x1, 3) (.) (x1 (-) x6)) (.) Power(x6, 3)) (.) y5) (+) (Power(x5, 4)
        (.) (Neg((Power(x6, 3) (.) y1)) (+) (Power(x1, 3) (.) y6)))) (+) (Power(x5, 3) (.)
        ((Power(x6, 4) (.) y1) (-) (Power(x1, 4) (.) y6)))))) (+) (Power(x4, 3) (.) (((((x1 (.)
        x6) (.) (Neg(Power(x1, 3)) (+) Power(x6, 3))) (.) y5) (+) (Power(x5, 4) (.) ((x6 (.) y1)
        (-) (x1 (.) y6)))) (+) (x5 (.) (Neg((Power(x6, 4) (.) y1)) (+) (Power(x1, 4) (.)
        y6)))))))) (+) (Power(x3, 3) (.) (((((((x1 (.) x5) (.) x6) (.) ((((Power(x5, 3) (.) (x5
        (-) x6)) (.) Power(x6, 3)) (+) (Power(x1, 4) (.) (Power(x5, 3) (-) Power(x6, 3)))) (+)
        (Power(x1, 3) (.) (Neg(Power(x5, 4)) (+) Power(x6, 4))))) (.) y4) (+) (Power(x4, 5) (.)
        (((((x1 (.) x6) (.) (Power(x1, 3) (-) Power(x6, 3))) (.) y5) (+) (Power(x5, 4) (.)
        (Neg((x6 (.) y1)) (+) (x1 (.) y6)))) (+) (x5 (.) ((Power(x6, 4) (.) y1) (-) (Power(x1,
        4) (.) y6)))))) (+) (x4 (.) (((((Power(x1, 4) (.) (x1 (-) x6)) (.) Power(x6, 4)) (.) y5)
        (+) (Power(x5, 5) (.) (Neg((Power(x6, 4) (.) y1)) (+) (Power(x1, 4) (.) y6)))) (+)
        (Power(x5, 4) (.) ((Power(x6, 5) (.) y1) (-) (Power(x1, 5) (.) y6)))))) (+) (Power(x4,
        4) (.) (((((x1 (.) x6) (.) (Neg(Power(x1, 4)) (+) Power(x6, 4))) (.) y5) (+) (Power(x5,
        5) (.) ((x6 (.) y1) (-) (x1 (.) y6)))) (+) (x5 (.) (Neg((Power(x6, 5) (.) y1)) (+)
        (Power(x1, 5) (.) y6)))))))) (+) (Power(x3, 4) (.) (((Neg(((((((x1 (.) x5) (.)
        (Power(x1, 2) (-) Power(x5, 2))) (.) x6) (.) (Power(x1, 2) (-) Power(x6, 2))) (.)
        (Power(x5, 2) (-) Power(x6, 2))) (.) y4)) (+) (Power(x4, 5) (.) (((((x1 (.) x6) (.)
        (Neg(Power(x1, 2)) (+) Power(x6, 2))) (.) y5) (+) (Power(x5, 3) (.) ((x6 (.) y1) (-) (x1
        (.) y6)))) (+) (x5 (.) (Neg((Power(x6, 3) (.) y1)) (+) (Power(x1, 3) (.) y6)))))) (+)
        (Power(x4, 3) (.) (((((x1 (.) x6) (.) (Power(x1, 4) (-) Power(x6, 4))) (.) y5) (+)
        (Power(x5, 5) (.) (Neg((x6 (.) y1)) (+) (x1 (.) y6)))) (+) (x5 (.) ((Power(x6, 5) (.)
        y1) (-) (Power(x1, 5) (.) y6)))))) (+) (x4 (.) (((((Power(x1, 3) (.) Power(x6, 3)) (.)
        (Neg(Power(x1, 2)) (+) Power(x6, 2))) (.) y5) (+) (Power(x5, 5) (.) ((Power(x6, 3) (.)
        y1) (-) (Power(x1, 3) (.) y6)))) (+) (Power(x5, 3) (.) (Neg((Power(x6, 5) (.) y1)) (+)
        (Power(x1, 5) (.) y6)))))))) (+) (x3 (.) (((Neg(((((((Power(x1, 3) (.) (x1 (-) x5)) (.)
        Power(x5, 3)) (.) (x1 (-) x6)) (.) (x5 (-) x6)) (.) Power(x6, 3)) (.) y4)) (+)
        (Power(x4, 5) (.) (((((Power(x1, 3) (.) Power(x6, 3)) (.) (Neg(x1) (+) x6)) (.) y5) (+)
        (Power(x5, 4) (.) ((Power(x6, 3) (.) y1) (-) (Power(x1, 3) (.) y6)))) (+) (Power(x5, 3)
        (.) (Neg((Power(x6, 4) (.) y1)) (+) (Power(x1, 4) (.) y6)))))) (+) (Power(x4, 4) (.)
        (((((Power(x1, 3) (.) Power(x6, 3)) (.) (Power(x1, 2) (-) Power(x6, 2))) (.) y5) (+)
        (Power(x5, 5) (.) (Neg((Power(x6, 3) (.) y1)) (+) (Power(x1, 3) (.) y6)))) (+)
        (Power(x5, 3) (.) ((Power(x6, 5) (.) y1) (-) (Power(x1, 5) (.) y6)))))) (+) (Power(x4,
        3) (.) (((((Power(x1, 4) (.) Power(x6, 4)) (.) (Neg(x1) (+) x6)) (.) y5) (+) (Power(x5,
        5) (.) ((Power(x6, 4) (.) y1) (-) (Power(x1, 4) (.) y6)))) (+) (Power(x5, 4) (.)
        (Neg((Power(x6, 5) (.) y1)) (+) (Power(x1, 5) (.) y6)))))))))) (/) (((((((((((((((x1 (-)
        x2) (.) (x1 (-) x3)) (.) (Neg(x2) (+) x3)) (.) (x1 (-) x4)) (.) (Neg(x2) (+) x4)) (.)
        (Neg(x3) (+) x4)) (.) (x1 (-) x5)) (.) (x2 (-) x5)) (.) (x3 (-) x5)) (.) (x4 (-) x5))
        (.) (x1 (-) x6)) (.) (x2 (-) x6)) (.) (x3 (-) x6)) (.) (x4 (-) x6)) (.) (x5 (-) x6))

(***************************************************************************)
(* State.  The extrapolation wrapper, the extrapolators called on their    *)
(* own, the projection cache and the grid generator share no state; the    *)
(* log-domain wrapper runs the extrapolation wrapper.  A specification     *)
(* runs one part and holds the variables of the others at rest.            *)
(***************************************************************************)
VARIABLES
    pc,         \* where the call of F is: start, grid, func, extrapolate, returned, raised
    args,       \* F's positional arguments: other arguments, then the resolutions
    kwargs,     \* F's keyword arguments
    func,       \* the wrapped function
    other_args, \* args[:-1]
    pts_l,      \* args[-1]
    idx,        \* position of the for loop in pts_l
    x_l,        \* grid spacings collected so far
    result_l,   \* results of func collected so far
    calls,      \* every invocation of func so far, in order, with what it was given
    ex_result,  \* the value F returned
    error       \* the error F raised

VARIABLES
    poly_pc,     \* ready, done
    poly_coefs,  \* the polynomial the values come from, constant term first
    poly_xs,     \* the positions
    poly_ys,     \* the values
    poly_result  \* what the extrapolator returned

VARIABLES
    heap,              \* the arrays that exist: an array is its index in this sequence
    writes,            \* what callers wrote into arrays they were given, in order
    _projection_cache, \* the module's dictionary: key -> array
    workload,          \* the keys this run's callers ask for
    call_log,          \* the keys of the calls made so far, in order
    first,             \* key -> the contents of what the first call with that key returned
    evals,             \* the keys the coefficient formula was evaluated for, in order
    ret                \* the array the latest call returned, 0 before any call

VARIABLES
    log_pc,     \* where the call of make_extrap_log_func's ex_func is
    log_args,   \* its positional arguments
    log_kwargs, \* its keyword arguments
    log_func,   \* the function given to make_extrap_log_func
    log_result, \* the value ex_func returned
    log_error   \* the error ex_func raised

VARIABLES
    grid_pc,    \* where the call of default_grid is: ready, returned, raised
    num_pts,    \* its argument
    grid,       \* the grid it returned
    grid_error  \* the error it raised

extrap_vars ==
    <<pc, args, kwargs, func, other_args, pts_l, idx, x_l, result_l, calls, ex_result, error>>

poly_vars == <<poly_pc, poly_coefs, poly_xs, poly_ys, poly_result>>

cache_vars == <<heap, writes, _projection_cache, workload, call_log, first, evals, ret>>

grid_vars == <<grid_pc, num_pts, grid, grid_error>>

log_vars == <<log_pc, log_args, log_kwargs, log_func, log_result, log_error>>

vars == <<extrap_vars, poly_vars, cache_vars, grid_vars, log_vars>>

(***************************************************************************)
(* The extrapolation wrapper: one call of the function F that              *)
(* make_extrap_func(func) returns.                                         *)
(*                                                                         *)
(* func is the caller's computation.  The model knows it by what it does   *)
(* at a resolution: it returns a value (a constant, or a value that        *)
(* depends on the resolution), or it raises its own error.                 *)
(***************************************************************************)
MaxLen == 7

Stride(start, step, k) ==
    [i \in 1..k |-> ResList[((start + step * (i - 1)) % Len(ResList)) + 1]]

\* Resolutions sequences of every length 0..MaxLen: one resolution repeated,
\* a rising run, a falling run and a mixed order, from every starting point.
PtsLists ==
    {Stride(s, st, k) : s \in 0..(Len(ResList) - 1),
                        st \in {0, 1, 3, Len(ResList) - 1},
                        k \in 0..MaxLen}

OtherArgs == {<<>>, <<"params", "ns">>}

Kwargs == {<<>>, <<<<"gamma", "g">>>>}

FuncError == "error raised by func"

Funcs ==
    {[kind |-> "const", c |-> v, fails |-> {}] : v \in {Rat(7, 1), Rat(0 - 3, 2)}}
        \cup {[kind |-> "by_pts", c |-> RatInt(0), fails |-> fs] : fs \in {{}, {45, 70}}}

NoError == "none"

NoValue == [n |-> BZero, d |-> BZero, e |-> 0 - 1]

\* A result of a function given to make_extrap_log_func: sign = 1 stands for
\* the positive number exp(ln), any other sign for a number that is not positive
\* (or not a number).
Positive(x) == [sign |-> 1, ln |-> x]

NotPositive == [sign |-> 0, ln |-> NonFinite]

NoLogValue == [sign |-> 0, ln |-> NoValue]

numpy_log(v) == IF v.sign = 1 THEN v.ln ELSE NonFinite

numpy_exp(x) == IF IsFinite(x) THEN Positive(x) ELSE NotPositive

\* The functions given to make_extrap_log_func: exp of a constant, exp of a
\* function of the resolution, and a function that is not positive.
LogFuncs ==
    {[kind |-> "exp_const", c |-> Rat(0 - 3, 2), fails |-> {}],
     [kind |-> "exp_by_pts", c |-> RatInt(0), fails |-> {}],
     [kind |-> "exp_by_pts", c |-> RatInt(0), fails |-> {45, 70}],
     [kind |-> "not_positive", c |-> RatInt(0), fails |-> {}]}

log_func_value(f, a, kw) ==
    IF f.kind = "exp_const" THEN Positive(Num(f.c))
    ELSE IF f.kind = "exp_by_pts" THEN Positive(Num(Rat(a[Len(a)], 10)))
    ELSE NotPositive

\* def logfunc(*args, **kwargs): return numpy.log(func(*args, **kwargs))
logfunc(f) == [kind |-> "logfunc", of |-> f]

\* The resolution is func's last positional argument.
func_raises(f, a, kw) ==
    IF f.kind = "logfunc" THEN a[Len(a)] \in f.of.fails ELSE a[Len(a)] \in f.fails

func_value(f, a, kw) ==
    IF f.kind = "logfunc" THEN numpy_log(log_func_value(f.of, a, kw))
    ELSE IF f.kind = "const" THEN Num(f.c)
    ELSE Num(Rat(a[Len(a)], 10))

ValueErrorMessage ==
    "Number of calculations to use for extrapolation must be between 1 and 6"

extrap_Init ==
    /\ pc = "start"
    /\ args \in {oa \o <<p>> : oa \in OtherArgs, p \in PtsLists}
    /\ kwargs \in Kwargs
    /\ func \in Funcs
    /\ other_args = <<>>
    /\ pts_l = <<>>
    /\ idx = 0
    /\ x_l = <<>>
    /\ result_l = <<>>
    /\ calls = <<>>
    /\ ex_result = NoValue
    /\ error = NoError
    /\ poly_pc = "idle"
    /\ poly_coefs = <<>>
    /\ poly_xs = <<>>
    /\ poly_ys = <<>>
    /\ poly_result = NoValue
    /\ _projection_cache = <<>>
    /\ workload = {}
    /\ call_log = <<>>
    /\ first = <<>>
    /\ evals = <<>>
    /\ ret = 0
    /\ heap = <<>>
    /\ writes = <<>>
    /\ grid_pc = "idle"
    /\ num_pts = 0
    /\ grid = <<>>
    /\ grid_error = NoError
    /\ log_pc = "idle"
    /\ log_args = <<>>
    /\ log_kwargs = <<>>
    /\ log_func = [kind |-> "none"]
    /\ log_result = NoLogValue
    /\ log_error = NoError

\* The for loop goes on to the next resolution, or ends.
LoopNext(i, n) == IF i < n THEN "grid" ELSE "extrapolate"

\* other_args, pts_l = args[:-1], args[-1];  x_l, result_l = [], []
extrap_func_enter ==
    /\ pc = "start"
    /\ other_args' = SubSeq(args, 1, Len(args) - 1)
    /\ pts_l' = args[Len(args)]
    /\ x_l' = <<>>
    /\ result_l' = <<>>
    /\ idx' = 0
    /\ pc' = LoopNext(0, Len(args[Len(args)]))
    /\ UNCHANGED <<args, kwargs, func, calls, ex_result, error>>
    /\ UNCHANGED <<poly_vars, cache_vars, grid_vars, log_vars>>

\* x = default_grid(pts)[1];  x_l.append(x)
extrap_func_grid ==
    /\ pc = "grid"
    /\ LET pts == pts_l[idx + 1]
       IN  IF default_grid_IndexError(pts)
           THEN /\ pc' = "raised"
                /\ error' = "IndexError"
                /\ x_l' = x_l
           ELSE /\ pc' = "func"
                /\ error' = error
                /\ x_l' = Append(x_l, Num(default_grid(pts)[2]))
    /\ UNCHANGED <<args, kwargs, func, other_args, pts_l, idx, result_l, calls, ex_result>>
    /\ UNCHANGED <<poly_vars, cache_vars, grid_vars, log_vars>>

\* A faulty variant of func_args: the other arguments are not passed on.
func_args_pts_only(oa, pts) == <<pts>>

\* The positional arguments func is called with.
func_args(oa, pts) == oa \o <<pts>>

\* A faulty variant of AfterCall: the loop goes on after an error of func.
AfterCall_goes_on(raised, i, n) == LoopNext(i, n)

\* An error raised by func leaves the loop and F; otherwise the loop goes on.
AfterCall(raised, i, n) == IF raised THEN "raised" ELSE LoopNext(i, n)

\* result = func(other_args + (pts,), kwargs);  result_l.append(result)
extrap_func_call ==
    /\ pc = "func"
    /\ LET a == func_args(other_args, pts_l[idx + 1])
           raised == func_raises(func, a, kwargs)
       IN  /\ calls' = Append(calls, [args |-> a, kwargs |-> kwargs, raised |-> raised])
           /\ result_l' = IF raised THEN result_l ELSE Append(result_l, func_value(func, a, kwargs))
           /\ error' = IF raised THEN FuncError ELSE error
           /\ idx' = idx + 1
           /\ pc' = AfterCall(raised, idx + 1, Len(pts_l))
    /\ UNCHANGED <<args, kwargs, func, other_args, pts_l, x_l, ex_result>>
    /\ UNCHANGED <<poly_vars, cache_vars, grid_vars, log_vars>>

\* A faulty variant of Extrapolate: the first result, whatever the length.
Extrapolate_first(n, ys, xs) == ys[1]

\* The if / elif chain on len(pts_l): the value returned, when there is one.
Extrapolate(n, ys, xs) ==
    IF n = 1 THEN ys[1]
    ELSE IF n = 2 THEN linear_extrap(ys, xs)
    ELSE IF n = 3 THEN quadratic_extrap(ys, xs)
    ELSE IF n = 4 THEN cubic_extrap(ys, xs)
    ELSE IF n = 5 THEN quartic_extrap(ys, xs)
    ELSE quintic_extrap(ys, xs)

\* The else branch of the chain.
LengthRefused(n) == ~(n \in 1..6)

extrap_func_extrapolate ==
    /\ pc = "extrapolate"
    /\ IF LengthRefused(Len(pts_l))
       THEN /\ pc' = "raised"
            /\ error' = ValueErrorMessage
            /\ ex_result' = ex_result
       ELSE /\ pc' = "returned"
            /\ error' = error
            /\ ex_result' = Extrapolate(Len(pts_l), result_l, x_l)
    /\ UNCHANGED <<args, kwargs, func, other_args, pts_l, idx, x_l, result_l, calls>>
    /\ UNCHANGED <<poly_vars, cache_vars, grid_vars, log_vars>>

extrap_Next ==
    \/ extrap_func_enter
    \/ extrap_func_grid
    \/ extrap_func_call
    \/ extrap_func_extrapolate

(***************************************************************************)
(* The log-domain wrapper: one call of the function ex_func that           *)
(* make_extrap_log_func(func) returns.  It runs exlog_func, the            *)
(* extrapolation wrapper of logfunc, on its own arguments, and returns the *)
(* exponential of what that returns.                                       *)
(***************************************************************************)
log_Init ==
    /\ log_pc = "ready"
    /\ log_args \in {oa \o <<p>> : oa \in OtherArgs, p \in PtsLists}
    /\ log_kwargs \in Kwargs
    /\ log_func \in LogFuncs
    /\ log_result = NoLogValue
    /\ log_error = NoError
    /\ pc = "idle"
    /\ args = <<>>
    /\ kwargs = <<>>
    /\ func = [kind |-> "none"]
    /\ other_args = <<>>
    /\ pts_l = <<>>
    /\ idx = 0
    /\ x_l = <<>>
    /\ result_l = <<>>
    /\ calls = <<>>
    /\ ex_result = NoValue
    /\ error = NoError
    /\ poly_pc = "idle"
    /\ poly_coefs = <<>>
    /\ poly_xs = <<>>
    /\ poly_ys = <<>>
    /\ poly_result = NoValue
    /\ _projection_cache = <<>>
    /\ workload = {}
    /\ call_log = <<>>
    /\ first = <<>>
    /\ evals = <<>>
    /\ ret = 0
    /\ heap = <<>>
    /\ writes = <<>>
    /\ grid_pc = "idle"
    /\ num_pts = 0
    /\ grid = <<>>
    /\ grid_error = NoError

\* exlog_func(*args, **kwargs) is entered, exlog_func = make_extrap_func(logfunc).
ex_func_enter ==
    /\ log_pc = "ready"
    /\ log_pc' = "called"
    /\ pc' = "start"
    /\ args' = log_args
    /\ kwargs' = log_kwargs
    /\ func' = logfunc(log_func)
    /\ UNCHANGED <<other_args, pts_l, idx, x_l, result_l, calls, ex_result, error>>
    /\ UNCHANGED <<log_args, log_kwargs, log_func, log_result, log_error>>
    /\ UNCHANGED <<poly_vars, cache_vars, grid_vars>>

\* A faulty variant of ex_func_value: the sign of the exponent is wrong.
ex_func_value_reciprocal(E) == numpy_exp(Neg(E))

\* return numpy.exp(exlog_func(*args, **kwargs))
ex_func_value(E) == numpy_exp(E)

\* exlog_func has returned or raised; an error passes through ex_func.
ex_func_return ==
    /\ log_pc = "called"
    /\ pc \in {"returned", "raised"}
    /\ IF pc = "returned"
       THEN /\ log_pc' = "returned"
            /\ log_result' = ex_func_value(ex_result)
            /\ log_error' = log_error
       ELSE /\ log_pc' = "raised"
            /\ log_result' = log_result
            /\ log_error' = error
    /\ UNCHANGED <<log_args, log_kwargs, log_func>>
    /\ UNCHANGED <<extrap_vars, poly_vars, cache_vars, grid_vars>>

log_Next ==
    \/ ex_func_enter
    \/ extrap_func_enter
    \/ extrap_func_grid
    \/ extrap_func_call
    \/ extrap_func_extrapolate
    \/ ex_func_return

(***************************************************************************)
(* The extrapolators on their own: each is applied once to k positions     *)
(* and k values.  The values are those of a polynomial with coefficients   *)
(* coefs (constant term first) at the positions; when the polynomial has   *)
(* more than k coefficients they are simply k arbitrary values.            *)
(***************************************************************************)
PosList == <<1, 0 - 2, 3, 0, 2, 5, 0 - 3>>

\* Pairwise distinct positions, k at a time, in rising, falling and mixed order.
Positions ==
    {[i \in 1..k |-> RatInt(PosList[((s + st * (i - 1)) % Len(PosList)) + 1])] :
        s \in 0..(Len(PosList) - 1), st \in {1, 2, 3}, k \in 2..6}

Polynomials ==
    {<<5>>, <<1, 0 - 2>>, <<0, 1, 3>>, <<2, 0, 0, 0 - 1>>, <<1, 1, 1, 1, 1>>,
     <<0 - 3, 0, 2, 0, 0, 1>>}

RECURSIVE PolyValue(_, _)
PolyValue(coefs, x) ==
    IF coefs = <<>> THEN RatInt(0)
    ELSE RatAdd(RatInt(coefs[1]), RatMul(x, PolyValue(Tail(coefs), x)))

\* The numbers of a list, as the extrapolators take them.
NumSeq(s) == [i \in 1..Len(s) |-> Num(s[i])]

poly_Init ==
    /\ poly_pc = "ready"
    /\ poly_coefs \in Polynomials
    /\ poly_xs \in Positions
    /\ poly_ys = [i \in 1..Len(poly_xs) |-> PolyValue(poly_coefs, poly_xs[i])]
    /\ poly_result = NoValue
    /\ pc = "idle"
    /\ args = <<>>
    /\ kwargs = <<>>
    /\ func = [kind |-> "none"]
    /\ other_args = <<>>
    /\ pts_l = <<>>
    /\ idx = 0
    /\ x_l = <<>>
    /\ result_l = <<>>
    /\ calls = <<>>
    /\ ex_result = NoValue
    /\ error = NoError
    /\ _projection_cache = <<>>
    /\ workload = {}
    /\ call_log = <<>>
    /\ first = <<>>
    /\ evals = <<>>
    /\ ret = 0
    /\ heap = <<>>
    /\ writes = <<>>
    /\ grid_pc = "idle"
    /\ num_pts = 0
    /\ grid = <<>>
    /\ grid_error = NoError
    /\ log_pc = "idle"
    /\ log_args = <<>>
    /\ log_kwargs = <<>>
    /\ log_func = [kind |-> "none"]
    /\ log_result = NoLogValue
    /\ log_error = NoError

call_linear_extrap ==
    /\ poly_pc = "ready"
    /\ Len(poly_xs) = 2
    /\ poly_result' = linear_extrap(NumSeq(poly_ys), NumSeq(poly_xs))
    /\ poly_pc' = "done"
    /\ UNCHANGED <<poly_coefs, poly_xs, poly_ys>>
    /\ UNCHANGED <<extrap_vars, cache_vars, grid_vars, log_vars>>

call_quadratic_extrap ==
    /\ poly_pc = "ready"
    /\ Len(poly_xs) = 3
    /\ poly_result' = quadratic_extrap(NumSeq(poly_ys), NumSeq(poly_xs))
    /\ poly_pc' = "done"
    /\ UNCHANGED <<poly_coefs, poly_xs, poly_ys>>
    /\ UNCHANGED <<extrap_vars, cache_vars, grid_vars, log_vars>>

call_cubic_extrap ==
    /\ poly_pc = "ready"
    /\ Len(poly_xs) = 4
    /\ poly_result' = cubic_extrap(NumSeq(poly_ys), NumSeq(poly_xs))
    /\ poly_pc' = "done"
    /\ UNCHANGED <<poly_coefs, poly_xs, poly_ys>>
    /\ UNCHANGED <<extrap_vars, cache_vars, grid_vars, log_vars>>

call_quartic_extrap ==
    /\ poly_pc = "ready"
    /\ Len(poly_xs) = 5
    /\ poly_result' = quartic_extrap(NumSeq(poly_ys), NumSeq(poly_xs))
    /\ poly_pc' = "done"
    /\ UNCHANGED <<poly_coefs, poly_xs, poly_ys>>
    /\ UNCHANGED <<extrap_vars, cache_vars, grid_vars, log_vars>>

call_quintic_extrap ==
    /\ poly_pc = "ready"
    /\ Len(poly_xs) = 6
    /\ poly_result' = quintic_extrap(NumSeq(poly_ys), NumSeq(poly_xs))
    /\ poly_pc' = "done"
    /\ UNCHANGED <<poly_coefs, poly_xs, poly_ys>>
    /\ UNCHANGED <<extrap_vars, cache_vars, grid_vars, log_vars>>

poly_Next ==
    \/ call_linear_extrap
    \/ call_quadratic_extrap
    \/ call_cubic_extrap
    \/ call_quartic_extrap
    \/ call_quintic_extrap

(***************************************************************************)
(* _cached_projection.  comb and gammaln are scipy's.  A floating-point    *)
(* value is a reduced fraction, or Inf = <<1, 0>>, or NaN = <<0, 0>>; a    *)
(* result above FloatMax overflows to Inf.  FloatMax stands for the        *)
(* largest double, about 1.8e308, which C(1030, 515) exceeds while         *)
(* C(1029, 515) does not; the model puts it between C(4, 2) and C(5, 2).   *)
(***************************************************************************)
FloatMax == 8

Inf == <<1, 0>>

NaN == <<0, 0>>

isnan(v) == v = NaN

Finite(v) == v[2] # 0

Overflow(v) == IF RatLess(RatInt(FloatMax), v) THEN Inf ELSE v

FloatMul(a, b) ==
    IF isnan(a) \/ isnan(b) THEN NaN
    ELSE IF Finite(a) /\ Finite(b) THEN Overflow(RatMul(a, b))
    ELSE IF a[1] = 0 \/ b[1] = 0 THEN NaN
    ELSE Inf

FloatDiv(a, b) ==
    IF isnan(a) \/ isnan(b) THEN NaN
    ELSE IF Finite(a) /\ Finite(b)
    THEN IF b[1] # 0 THEN Overflow(RatDiv(a, b)) ELSE IF a[1] = 0 THEN NaN ELSE Inf
    ELSE IF Finite(a) THEN RatInt(0)
    ELSE IF Finite(b) THEN Inf
    ELSE NaN

RECURSIVE Factorial(_)
Factorial(n) == IF n <= 0 THEN 1 ELSE n * Factorial(n - 1)

\* The binomial coefficient N choose k, for 0 <= k <= N.
Choose(N, k) == Factorial(N) \div (Factorial(k) * Factorial(N - k))

\* scipy's comb(N, k) in floating point: 0 if k > N, N < 0 or k < 0.
comb(N, k) ==
    IF k <= N /\ N >= 0 /\ k >= 0 THEN Overflow(RatInt(Choose(N, k))) ELSE RatInt(0)

\* A logarithm is kept as the number it is the logarithm of: log(0) is -inf and
\* log(Inf) is +inf.  Sums and differences of logarithms do not overflow.
gammaln(n) == IF n <= 0 THEN Inf ELSE RatInt(Factorial(n - 1))

LogAdd(a, b) ==
    IF isnan(a) \/ isnan(b) THEN NaN
    ELSE IF Finite(a) /\ Finite(b) THEN RatMul(a, b)
    ELSE IF a[1] = 0 \/ b[1] = 0 THEN NaN
    ELSE Inf

LogSub(a, b) ==
    IF isnan(a) \/ isnan(b) THEN NaN
    ELSE IF Finite(a) /\ Finite(b)
    THEN IF b[1] # 0 THEN RatDiv(a, b) ELSE IF a[1] = 0 THEN NaN ELSE Inf
    ELSE IF Finite(a) THEN RatInt(0)
    ELSE IF Finite(b) THEN Inf
    ELSE NaN

exp(l) == IF Finite(l) THEN Overflow(l) ELSE l

_lncomb(N, k) == LogSub(LogSub(gammaln(N + 1), gammaln(k + 1)), gammaln(N - k + 1))

\* proj_hits = numpy.arange(proj_to+1): entry i of a vector belongs to i - 1 hits.
direct_contrib(proj_to, proj_from, hits) ==
    [i \in 1..(proj_to + 1) |->
        FloatDiv(FloatMul(comb(proj_to, i - 1), comb(proj_from - proj_to, hits - (i - 1))),
                 comb(proj_from, hits))]

log_contrib(proj_to, proj_from, hits) ==
    [i \in 1..(proj_to + 1) |->
        exp(LogSub(LogAdd(_lncomb(proj_to, i - 1),
                          _lncomb(proj_from - proj_to, hits - (i - 1))),
                   _lncomb(proj_from, hits)))]

any_isnan(v) == \E i \in 1..Len(v) : isnan(v[i])

\* A faulty variant of compute_contrib: only the entries that are not a number
\* are taken from the log-domain computation.
compute_contrib_selective(proj_to, proj_from, hits) ==
    LET contrib == direct_contrib(proj_to, proj_from, hits)
        lncontrib == log_contrib(proj_to, proj_from, hits)
    IN  [i \in 1..(proj_to + 1) |-> IF isnan(contrib[i]) THEN lncontrib[i] ELSE contrib[i]]

\* Lines 293-301: the vector a miss computes.
compute_contrib(proj_to, proj_from, hits) ==
    LET contrib == direct_contrib(proj_to, proj_from, hits)
    IN  IF any_isnan(contrib) THEN log_contrib(proj_to, proj_from, hits) ELSE contrib

MaxProjFrom == 6

MaxCalls == 3

\* A key is (proj_to, proj_from, hits) with proj_to <= proj_from and hits <= proj_from.
Keys ==
    {k \in (0..MaxProjFrom) \X (0..MaxProjFrom) \X (0..MaxProjFrom) :
        k[1] <= k[2] /\ k[3] <= k[2]}

\* The key with the next number of hits, for the same two sample sizes.
NextHits(key) == <<key[1], key[2], (key[3] + 1) % (key[2] + 1)>>

\* What the callers of a run ask for: one key, or a key and another one.
Workloads ==
    {{a, b} : a \in Keys, b \in {<<2, 4, 2>>, <<1, MaxProjFrom, 2>>}}
        \cup {{a, NextHits(a)} : a \in Keys}

cache_Init ==
    /\ _projection_cache = <<>>
    /\ workload \in Workloads
    /\ call_log = <<>>
    /\ first = <<>>
    /\ evals = <<>>
    /\ ret = 0
    /\ heap = <<>>
    /\ writes = <<>>
    /\ pc = "idle"
    /\ args = <<>>
    /\ kwargs = <<>>
    /\ func = [kind |-> "none"]
    /\ other_args = <<>>
    /\ pts_l = <<>>
    /\ idx = 0
    /\ x_l = <<>>
    /\ result_l = <<>>
    /\ calls = <<>>
    /\ ex_result = NoValue
    /\ error = NoError
    /\ poly_pc = "idle"
    /\ poly_coefs = <<>>
    /\ poly_xs = <<>>
    /\ poly_ys = <<>>
    /\ poly_result = NoValue
    /\ grid_pc = "idle"
    /\ num_pts = 0
    /\ grid = <<>>
    /\ grid_error = NoError
    /\ log_pc = "idle"
    /\ log_args = <<>>
    /\ log_kwargs = <<>>
    /\ log_func = [kind |-> "none"]
    /\ log_result = NoLogValue
    /\ log_error = NoError

\* A faulty variant of cache_has: the lookup never finds the key.
cache_never_has(cache, key) == FALSE

\* try: return _projection_cache[key]   succeeds.
cache_has(cache, key) == key \in DOMAIN cache

\* A faulty variant of cache_store: the new entry replaces the dictionary.
cache_store_alone(cache, key, contrib) == [k \in {key} |-> contrib]

\* _projection_cache[key] = contrib
cache_store(cache, key, contrib) ==
    [k \in (DOMAIN cache) \cup {key} |-> IF k = key THEN contrib ELSE cache[k]]

\* Bookkeeping: remember what the first call with a key returned.
Note(f, key, v) ==
    IF key \in DOMAIN f THEN f
    ELSE [k \in (DOMAIN f) \cup {key} |-> IF k = key THEN v ELSE f[k]]

\* A faulty variant of return_array: the caller is given a copy.
return_array_copy(h, obj) == <<Append(h, h[obj]), Len(h) + 1>>

\* return _projection_cache[key], return contrib: the caller is given the array
\* itself.  The arrays after the return, and the array returned.
return_array(h, obj) == <<h, obj>>

\* Lines 287-289: the key is in the dictionary.
cached_projection_hit(key) ==
    /\ cache_has(_projection_cache, key)
    /\ LET r == return_array(heap, _projection_cache[key])
       IN  /\ heap' = r[1]
           /\ ret' = r[2]
           /\ first' = Note(first, key, r[1][r[2]])
    /\ call_log' = Append(call_log, key)
    /\ UNCHANGED <<_projection_cache, workload, evals, writes>>
    /\ UNCHANGED <<extrap_vars, poly_vars, grid_vars, log_vars>>

\* Lines 287-304 on KeyError: compute a new array, store it, return it.
cached_projection_miss(key) ==
    /\ ~cache_has(_projection_cache, key)
    /\ LET contrib == Len(heap) + 1
           r == return_array(Append(heap, compute_contrib(key[1], key[2], key[3])), contrib)
       IN  /\ _projection_cache' = cache_store(_projection_cache, key, contrib)
           /\ heap' = r[1]
           /\ ret' = r[2]
           /\ first' = Note(first, key, r[1][r[2]])
    /\ evals' = Append(evals, key)
    /\ call_log' = Append(call_log, key)
    /\ UNCHANGED <<workload, writes>>
    /\ UNCHANGED <<extrap_vars, poly_vars, grid_vars, log_vars>>

_cached_projection ==
    /\ Len(call_log) < MaxCalls
    /\ \E key \in workload :
          \/ cached_projection_hit(key)
          \/ cached_projection_miss(key)

MaxWrites == 1

MaxAliasFrom == 3

\* What the callers of a run with writing callers ask for: a key, or a key and
\* the key with the next number of hits.
AliasWorkloads == {{a, NextHits(a)} : a \in {k \in Keys : k[2] <= MaxAliasFrom}}

alias_Init ==
    /\ _projection_cache = <<>>
    /\ workload \in AliasWorkloads
    /\ call_log = <<>>
    /\ first = <<>>
    /\ evals = <<>>
    /\ ret = 0
    /\ heap = <<>>
    /\ writes = <<>>
    /\ pc = "idle"
    /\ args = <<>>
    /\ kwargs = <<>>
    /\ func = [kind |-> "none"]
    /\ other_args = <<>>
    /\ pts_l = <<>>
    /\ idx = 0
    /\ x_l = <<>>
    /\ result_l = <<>>
    /\ calls = <<>>
    /\ ex_result = NoValue
    /\ error = NoError
    /\ poly_pc = "idle"
    /\ poly_coefs = <<>>
    /\ poly_xs = <<>>
    /\ poly_ys = <<>>
    /\ poly_result = NoValue
    /\ grid_pc = "idle"
    /\ num_pts = 0
    /\ grid = <<>>
    /\ grid_error = NoError
    /\ log_pc = "idle"
    /\ log_args = <<>>
    /\ log_kwargs = <<>>
    /\ log_func = [kind |-> "none"]
    /\ log_result = NoLogValue
    /\ log_error = NoError

\* A value that is no projection coefficient.
Overwritten == RatInt(2)

\* The caller of the latest call assigns to an entry of the array it was given.
caller_modifies ==
    /\ ret # 0
    /\ Len(writes) < MaxWrites
    /\ \E i \in 1..Len(heap[ret]) :
          /\ heap' = [heap EXCEPT ![ret][i] = Overwritten]
          /\ writes' = Append(writes, [obj |-> ret, at |-> Len(call_log), array |-> heap'[ret]])
    /\ UNCHANGED <<_projection_cache, workload, call_log, first, evals, ret>>
    /\ UNCHANGED <<extrap_vars, poly_vars, grid_vars, log_vars>>

cache_Next == _cached_projection

\* The cache with callers that write into what they are given.
alias_Next == _cached_projection \/ caller_modifies

(***************************************************************************)
(* One call of default_grid.                                               *)
(***************************************************************************)
MaxGridPts == 60

grid_Init ==
    /\ grid_pc = "ready"
    /\ num_pts \in 0..MaxGridPts
    /\ grid = <<>>
    /\ grid_error = NoError
    /\ pc = "idle"
    /\ args = <<>>
    /\ kwargs = <<>>
    /\ func = [kind |-> "none"]
    /\ other_args = <<>>
    /\ pts_l = <<>>
    /\ idx = 0
    /\ x_l = <<>>
    /\ result_l = <<>>
    /\ calls = <<>>
    /\ ex_result = NoValue
    /\ error = NoError
    /\ poly_pc = "idle"
    /\ poly_coefs = <<>>
    /\ poly_xs = <<>>
    /\ poly_ys = <<>>
    /\ poly_result = NoValue
    /\ _projection_cache = <<>>
    /\ workload = {}
    /\ call_log = <<>>
    /\ first = <<>>
    /\ evals = <<>>
    /\ ret = 0
    /\ heap = <<>>
    /\ writes = <<>>
    /\ log_pc = "idle"
    /\ log_args = <<>>
    /\ log_kwargs = <<>>
    /\ log_func = [kind |-> "none"]
    /\ log_result = NoLogValue
    /\ log_error = NoError

\* The whole function: the IndexError of q[1], grid[-1] or grid[-2], or the grid.
default_grid_call ==
    /\ grid_pc = "ready"
    /\ IF default_grid_IndexError(num_pts)
       THEN /\ grid_pc' = "raised"
            /\ grid_error' = "IndexError"
            /\ grid' = grid
       ELSE /\ grid_pc' = "returned"
            /\ grid_error' = grid_error
            /\ grid' = default_grid_float(num_pts)
    /\ UNCHANGED num_pts
    /\ UNCHANGED <<extrap_vars, poly_vars, cache_vars, log_vars>>

grid_Next == default_grid_call

(***************************************************************************)
(* Specifications.                                                         *)
(***************************************************************************)
SpecExtrap == extrap_Init /\ [][extrap_Next]_vars

SpecPoly == poly_Init /\ [][poly_Next]_vars

SpecCache == cache_Init /\ [][cache_Next]_vars

SpecGrid == grid_Init /\ [][grid_Next]_vars

SpecLog == log_Init /\ [][log_Next]_vars

SpecAlias == alias_Init /\ [][alias_Next]_vars

Init == extrap_Init \/ poly_Init \/ cache_Init \/ grid_Init \/ log_Init \/ alias_Init

Next == extrap_Next \/ poly_Next \/ cache_Next \/ grid_Next \/ log_Next \/ alias_Next

Spec == Init /\ [][Next]_vars

(***************************************************************************)
(* Properties of the extrapolation wrapper (SpecExtrap).                   *)
(***************************************************************************)
\* What the caller gave F, read from args alone.
GivenOtherArgs == SubSeq(args, 1, Len(args) - 1)

GivenPts == args[Len(args)]

Returned == pc = "returned"

Raised == pc = "raised"

\* C1: with 1 to 6 resolutions, the invocations of func so far are, in order, those
\* of the first resolutions of the sequence, one each, every one with the caller's
\* other arguments followed by the resolution and with the caller's keyword
\* arguments; when F returns there has been exactly one for every entry.
C1_OncePerEntryInOrder ==
    Len(GivenPts) \in 1..6 =>
        /\ Len(calls) <= Len(GivenPts)
        /\ \A i \in 1..Len(calls) :
              /\ calls[i].args = GivenOtherArgs \o <<GivenPts[i]>>
              /\ calls[i].kwargs = kwargs
        /\ Returned => Len(calls) = Len(GivenPts)

C1_Witness ==
    /\ Returned
    /\ Len(calls) = 6
    /\ GivenOtherArgs # <<>>
    /\ kwargs # <<>>
    /\ GivenPts[1] > GivenPts[2]

\* The results and spacings of the resolutions, in the order of the sequence.
ResultsInOrder ==
    [i \in 1..Len(GivenPts) |-> func_value(func, GivenOtherArgs \o <<GivenPts[i]>>, kwargs)]

SpacingsInOrder == [i \in 1..Len(GivenPts) |-> Num(default_grid(GivenPts[i])[2])]

\* C2: when F returns for k resolutions, k is in 1..6 and the value is the result
\* of func itself for k = 1, and for k = 2, ..., 6 the linear, quadratic, cubic,
\* quartic, quintic extrapolator applied to the results and the first grid
\* spacings of the resolutions, both in the order of the sequence.
C2_ExtrapolatorOfOrder ==
    Returned =>
        LET k == Len(GivenPts)
            ys == ResultsInOrder
            xs == SpacingsInOrder
        IN  /\ k \in 1..6
            /\ k = 1 => ex_result = ys[1]
            /\ k = 2 => ex_result = linear_extrap(ys, xs)
            /\ k = 3 => ex_result = quadratic_extrap(ys, xs)
            /\ k = 4 => ex_result = cubic_extrap(ys, xs)
            /\ k = 5 => ex_result = quartic_extrap(ys, xs)
            /\ k = 6 => ex_result = quintic_extrap(ys, xs)

C2_Witness ==
    /\ Returned
    /\ Len(GivenPts) = 6
    /\ func.kind = "by_pts"
    /\ IsFinite(ex_result)

\* Two entries of the resolutions sequence that differ and have the same
\* floor(r / 10).
SameTenth(i, j) ==
    /\ GivenPts[i] # GivenPts[j]
    /\ GivenPts[i] \div 10 = GivenPts[j] \div 10

\* C15: the position recorded for a resolution r >= 20 is 0.05 / (floor(r/10) - 1),
\* so resolutions with the same floor(r/10) get the same position; and when F
\* returns for two or more resolutions of which two different ones have the same
\* floor(r/10), the extrapolator has divided by a zero position difference and
\* the value returned is not a number extrapolated from the results.
C15_EqualTenthsCoincide ==
    /\ \A i \in 1..Len(x_l) :
          /\ GivenPts[i] >= 20
          /\ x_l[i] = Num(RatDiv(Rat(1, 20), RatInt((GivenPts[i] \div 10) - 1)))
    /\ \A i, j \in 1..Len(x_l) :
          GivenPts[i] \div 10 = GivenPts[j] \div 10 => x_l[i] = x_l[j]
    /\ (Returned /\ \E i, j \in 1..Len(GivenPts) : SameTenth(i, j)) =>
          /\ Len(GivenPts) >= 2
          /\ Len(x_l) = Len(GivenPts)
          /\ \E i, j \in 1..Len(x_l) : SameTenth(i, j) /\ NumSub(x_l[i], x_l[j]).n = BZero
          /\ ex_result = NonFinite

C15_Witness ==
    /\ Returned
    /\ Len(GivenPts) >= 2
    /\ \E i, j \in 1..Len(GivenPts) : GivenPts[i] = 40 /\ GivenPts[j] = 45
    /\ func.kind = "by_pts"
    /\ ex_result = NonFinite

\* The arguments ex_func was called with, and the exponents g of the results
\* exp(g) of the function given to make_extrap_log_func, in the order of the
\* resolutions.
LogGivenOtherArgs == SubSeq(log_args, 1, Len(log_args) - 1)

LogGivenPts == log_args[Len(log_args)]

ExponentsInOrder ==
    [i \in 1..Len(LogGivenPts) |->
        log_func_value(log_func, LogGivenOtherArgs \o <<LogGivenPts[i]>>, log_kwargs).ln]

LogSpacingsInOrder == [i \in 1..Len(LogGivenPts) |-> Num(default_grid(LogGivenPts[i])[2])]

\* What make_extrap_func(g) returns for results ys at spacings xs.
ExtrapolatedValue(ys, xs) ==
    CASE Len(ys) = 1 -> ys[1]
      [] Len(ys) = 2 -> linear_extrap(ys, xs)
      [] Len(ys) = 3 -> quadratic_extrap(ys, xs)
      [] Len(ys) = 4 -> cubic_extrap(ys, xs)
      [] Len(ys) = 5 -> quartic_extrap(ys, xs)
      [] Len(ys) = 6 -> quintic_extrap(ys, xs)

\* C14: for a strictly positive function f = exp(g), when ex_func returns its value
\* is exp(E), where E is what the extrapolation wrapper of log(f) returned for the
\* same arguments, and E is the extrapolation of g itself at those arguments.
C14_ExpOfExtrapolatedLog ==
    (log_pc = "returned" /\ log_func.kind # "not_positive") =>
        /\ args = log_args
        /\ kwargs = log_kwargs
        /\ func = logfunc(log_func)
        /\ pc = "returned"
        /\ log_result = numpy_exp(ex_result)
        /\ ex_result = ExtrapolatedValue(ExponentsInOrder, LogSpacingsInOrder)
        /\ log_result = numpy_exp(ExtrapolatedValue(ExponentsInOrder, LogSpacingsInOrder))

C14_Witness ==
    /\ log_pc = "returned"
    /\ log_func.kind = "exp_by_pts"
    /\ Len(LogGivenPts) = 6
    /\ LogGivenOtherArgs # <<>>
    /\ log_result.sign = 1
    /\ \A i \in 1..6 : ~NumEq(log_result.ln, ExponentsInOrder[i])

\* C3 as stated: a call of F with no resolution or more than 6 ends with the error
\* whose message gives the range, and never with a value.
C3_RangeErrorWhenever ==
    (LengthRefused(Len(GivenPts)) /\ (Returned \/ Raised)) =>
        (Raised /\ error = ValueErrorMessage)

\* C4 as stated: with a length outside 1..6 func is never invoked, and the only
\* error F ends with is the one about the length.
C4_RefusedBeforeFunc ==
    LengthRefused(Len(GivenPts)) =>
        /\ calls = <<>>
        /\ Raised => error = ValueErrorMessage

\* C5: an invocation of func that raised is the last one; F has ended with func's
\* own error, the results collected before it are left as they were, and no value
\* has been returned.
C5_FailurePropagates ==
    \A i \in 1..Len(calls) :
        calls[i].raised =>
            /\ i = Len(calls)
            /\ Raised
            /\ error = FuncError
            /\ Len(result_l) = i - 1
            /\ ex_result = NoValue

C5_Witness ==
    /\ Raised
    /\ error = FuncError
    /\ Len(calls) >= 2
    /\ Len(calls) < Len(GivenPts)

\* No two resolutions of the sequence have the same floor(r / 10), that is, the
\* same first grid spacing.
DistinctSpacings ==
    \A i, j \in 1..Len(GivenPts) :
        i # j => small_pts(GivenPts[i]) # small_pts(GivenPts[j])

\* C6 as stated: F of a constant function returns the constant whenever it returns.
C6_ConstantReturned ==
    (func.kind = "const" /\ Returned) => NumEq(ex_result, Num(func.c))

\* C6, amended: F of a constant function returns the constant for 1 to 6
\* resolutions accepted by default_grid of which no two have the same
\* floor(r / 10).
C6_ConstantReturnedDistinct ==
    (func.kind = "const" /\ Returned /\ DistinctSpacings) => NumEq(ex_result, Num(func.c))

C6_Witness ==
    /\ func.kind = "const"
    /\ Returned
    /\ DistinctSpacings
    /\ Len(GivenPts) = 6
    /\ NumEq(ex_result, Num(func.c))

(***************************************************************************)
(* Properties of the grid generator (SpecGrid).                            *)
(***************************************************************************)
GridReturned == grid_pc = "returned"

StrictlyIncreasing(g) == \A i \in 1..(Len(g) - 1) : FloatLess(g[i], g[i + 1])

\* C12 as stated: a grid that default_grid returns is strictly increasing, starts
\* at 0, ends at exactly 1 and has num_pts points.
C12_GridShape ==
    GridReturned =>
        /\ Len(grid) = num_pts
        /\ grid[1] = FloatInt(0)
        /\ StrictlyIncreasing(grid)
        /\ grid[Len(grid)] = FloatInt(1)

\* The shape of a returned grid, its last point left aside.
GridShapeButEnd ==
    GridReturned =>
        /\ Len(grid) = num_pts
        /\ grid[1] = FloatInt(0)
        /\ StrictlyIncreasing(grid)

\* C13 as stated: default_grid(10) returns a grid; small_pts is 1, the boundary
\* array is the single value 0, and the grid starts at exactly 0 and goes on
\* with the interior points.
C13_GridOfTen ==
    (num_pts = 10 /\ grid_pc # "ready") =>
        /\ small_pts(10) = 1
        /\ linspace_float(FloatInt(0), FloatOver(FloatInt(1), FloatInt(20)), 1) = <<FloatInt(0)>>
        /\ GridReturned
        /\ grid[1] = FloatInt(0)
        /\ Len(grid) = 10

(***************************************************************************)
(* Properties of the extrapolators (SpecPoly).                             *)
(***************************************************************************)
RECURSIVE LagrangeWeight(_, _, _)
\* The product over j <= n, j # i, of xs[j] / (xs[j] - xs[i]).
LagrangeWeight(xs, i, n) ==
    IF n = 0 THEN RatInt(1)
    ELSE IF n = i THEN LagrangeWeight(xs, i, n - 1)
    ELSE RatMul(RatDiv(xs[n], RatSub(xs[n], xs[i])), LagrangeWeight(xs, i, n - 1))

RECURSIVE LagrangeSum(_, _, _)
LagrangeSum(ys, xs, n) ==
    IF n = 0 THEN RatInt(0)
    ELSE RatAdd(RatMul(ys[n], LagrangeWeight(xs, n, Len(xs))), LagrangeSum(ys, xs, n - 1))

\* The value at 0 of the polynomial of degree below Len(xs) through the points.
LagrangeAtZero(ys, xs) == LagrangeSum(ys, xs, Len(xs))

\* C7: for k = 2, ..., 6 pairwise distinct positions, the extrapolator of that order
\* returns the value at 0 of the Lagrange polynomial through the k points; when
\* the values are those of a polynomial p of degree below k, that value is p(0).
C7_LagrangeAtZero ==
    poly_pc = "done" =>
        /\ NumEq(poly_result, Num(LagrangeAtZero(poly_ys, poly_xs)))
        /\ Len(poly_coefs) <= Len(poly_xs) => NumEq(poly_result, Num(RatInt(poly_coefs[1])))

C7_Witness ==
    /\ poly_pc = "done"
    /\ Len(poly_xs) = 6
    /\ Len(poly_coefs) = 6
    /\ NumEq(poly_result, Num(RatInt(poly_coefs[1])))

(***************************************************************************)
(* Properties of the projection cache (SpecCache).                         *)
(***************************************************************************)
Requested == {call_log[i] : i \in 1..Len(call_log)}

LastKey == call_log[Len(call_log)]

\* The contents of the array stored under a key, and of the array returned.
Stored(k) == heap[_projection_cache[k]]

ReturnedArray == heap[ret]

\* C8: the coefficient formula is evaluated at most once for a key, whatever calls
\* come in between, and every call returns what the first call with its key
\* returned.
C8_HitReturnsStored ==
    /\ \A i, j \in 1..Len(evals) : evals[i] = evals[j] => i = j
    /\ call_log # <<>> => ReturnedArray = first[LastKey]

C8_Witness ==
    /\ Len(call_log) = 3
    /\ call_log[3] = call_log[1]
    /\ call_log[2] # call_log[1]
    /\ Len(evals) = 2
    /\ ReturnedArray = first[call_log[1]]

\* The dictionary holds exactly the keys asked for, each with the vector first
\* computed for it.
CacheHoldsRequested ==
    /\ DOMAIN _projection_cache = Requested
    /\ \A k \in DOMAIN _projection_cache : Stored(k) = first[k]

\* No step removes or changes an entry, and a call leaves its key in the dictionary.
CacheGrows ==
    /\ \A k \in DOMAIN _projection_cache :
          /\ k \in DOMAIN _projection_cache'
          /\ _projection_cache'[k] = _projection_cache[k]
          /\ heap'[_projection_cache'[k]] = Stored(k)
    /\ call_log' # call_log => call_log'[Len(call_log')] \in DOMAIN _projection_cache'

\* C9: the cache only grows: a miss stores its vector under its key, no call
\* removes or replaces an entry, and the cache holds exactly the keys requested
\* so far, each with the vector first computed for it.
C9_CacheOnlyGrows == [](CacheHoldsRequested) /\ [][CacheGrows]_vars

C9_Witness ==
    /\ Len(call_log) = 3
    /\ Cardinality(DOMAIN _projection_cache) = 2
    /\ call_log[1] # call_log[2]
    /\ call_log[3] = call_log[2]

\* The direct vector of a key, and its log-domain vector.
DirectOf(key) == direct_contrib(key[1], key[2], key[3])

LogOf(key) == log_contrib(key[1], key[2], key[3])

HasNaN(v) == \E i \in 1..Len(v) : v[i] = NaN

\* C11: the vector stored for a key and returned by a call is the log-domain
\* vector, in every entry, when the direct vector has an entry that is not a
\* number, and the direct vector otherwise; every call returns a vector.
C11_WholeVectorFallback ==
    /\ \A k \in DOMAIN _projection_cache :
          Stored(k) = IF HasNaN(DirectOf(k)) THEN LogOf(k) ELSE DirectOf(k)
    /\ call_log # <<>> =>
          /\ ReturnedArray = IF HasNaN(DirectOf(LastKey)) THEN LogOf(LastKey) ELSE DirectOf(LastKey)
          /\ ret = _projection_cache[LastKey]

\* A miss whose direct vector is not a number in one entry and is a number, but
\* not the one returned, in another.
C11_Witness ==
    /\ call_log # <<>>
    /\ Len(evals) = Len(call_log)
    /\ ReturnedArray = LogOf(LastKey)
    /\ \E i, j \in 1..Len(ReturnedArray) :
          /\ DirectOf(LastKey)[i] = NaN
          /\ DirectOf(LastKey)[j] # NaN
          /\ DirectOf(LastKey)[j] # ReturnedArray[j]

\* A call whose direct vector has no entry that is not a number.
C11_WitnessDirect ==
    /\ call_log # <<>>
    /\ ~HasNaN(DirectOf(LastKey))
    /\ ReturnedArray = DirectOf(LastKey)

\* The latest write of a caller into an array, if there is one.
LatestWrite(obj) ==
    LET at == {i \in 1..Len(writes) : writes[i].obj = obj}
    IN  IF at = {} THEN 0 ELSE CHOOSE i \in at : \A j \in at : j <= i

\* What the code computes for a key.
Computed(k) == compute_contrib(k[1], k[2], k[3])

\* C16: the array a call returns, on a miss and on a hit, is the array stored in
\* the cache under its key, not a copy; so once a caller has written into the
\* array it was given, the entry holds what the caller wrote, every later call
\* with that key returns it, and the entry is no longer the vector computed for
\* its key.
C16_ReturnedIsStored ==
    /\ call_log # <<>> => ret = _projection_cache[LastKey]
    /\ \A k \in DOMAIN _projection_cache :
          LET w == LatestWrite(_projection_cache[k])
          IN  IF w = 0 THEN Stored(k) = Computed(k)
              ELSE /\ Stored(k) = writes[w].array
                   /\ Stored(k) # Computed(k)
                   /\ LastKey = k => ReturnedArray = writes[w].array

\* A miss, a write of the caller into what it was given, then a hit with the
\* same key, which returns what the caller wrote.
C16_Witness ==
    /\ Len(call_log) = 2
    /\ call_log[1] = call_log[2]
    /\ Len(evals) = 1
    /\ Len(writes) = 1
    /\ writes[1].at = 1
    /\ ReturnedArray = writes[1].array
    /\ ReturnedArray # Computed(LastKey)
    /\ ReturnedArray # first[LastKey]

\* A binomial coefficient, 0 when the lower index is outside 0..N.
Binomial(N, k) == IF 0 <= k /\ k <= N THEN Choose(N, k) ELSE 0

Coefficient(proj_to, proj_from, hits, j) ==
    Rat(Binomial(proj_to, j) * Binomial(proj_from - proj_to, hits - j),
        Binomial(proj_from, hits))

RECURSIVE RatTotal(_, _)
RatTotal(v, n) == IF n = 0 THEN RatInt(0) ELSE RatAdd(v[n], RatTotal(v, n - 1))

\* C10 as stated: the vector a call returns has proj_to + 1 entries, entry j being
\* C(proj_to, j) C(proj_from - proj_to, hits - j) / C(proj_from, hits); the entries
\* are not negative and sum to at most 1; for (2, 4, 2) it is [1/6, 4/6, 1/6].
C10_HypergeometricVector ==
    call_log # <<>> =>
        LET vector == ReturnedArray
            proj_to == LastKey[1]
            proj_from == LastKey[2]
            hits == LastKey[3]
        IN  /\ Len(vector) = proj_to + 1
            /\ \A j \in 0..proj_to : vector[j + 1] = Coefficient(proj_to, proj_from, hits, j)
            /\ \A j \in 0..proj_to : ~RatLess(vector[j + 1], RatInt(0))
            /\ ~RatLess(RatInt(1), RatTotal(vector, Len(vector)))
            /\ LastKey = <<2, 4, 2>> => vector = <<Rat(1, 6), Rat(4, 6), Rat(1, 6)>>

====
